---- MODULE Spec2Model ----
(***************************************************************************)
(* Model of esxi_patcher.py: ESXiStandalonePatcher.run, process_host and   *)
(* check_and_shutdown_vms.                                                 *)
(*                                                                         *)
(* The collaborators (pyVmomi, paramiko, sockets) are the environment:     *)
(* every call to them returns one of the results the wrapper in the source *)
(* can return (the wrappers catch every exception and turn it into False / *)
(* None), chosen with \E.  The only calls process_host makes without such  *)
(* a wrapper are ssh_client.close() and Disconnect() at lines 994-997;     *)
(* they may raise.                                                         *)
(***************************************************************************)
EXTENDS Integers, Sequences, FiniteSets, TLC

\* ------------------------------------------------------------------ bounds
MaxHosts == 3
MaxVMs == 2
MaxLatency == 1
MaxFaults == 1
MaxNameLen == 4
MaxSize == 2
MaxCalls == 3
MaxChunks == 2
MaxElapsed == 301

\* ------------------------------------------------------- program constants
EXIT_OK == 0
EXIT_ERROR == 1
EXIT_INTERRUPTED == 130
POLL_INTERVAL == 5
DEFAULT_GRACEFUL_TIMEOUT == 180
MAX_RETRIES == 5

\* wait_for_host_reboot: the attempts of the down stage, the bound of the up
\* stage, the socket timeout of a probe, the sleeps (after a probe, before
\* the API probe, after the API port answered), the timeout of the signature
\* and the one process_host passes.
DOWN_ATTEMPTS == 60
MAX_WAIT == 600
PROBE_TIMEOUT == 5
PROBE_SLEEP == 5
API_DELAY == 15
SERVICES_DELAY == 25
DEFAULT_REBOOT_TIMEOUT == 900
REBOOT_TIMEOUT == 600

\* ssh_execute_with_output: the timeout ssh_execute passes, the default of the
\* method itself, and the wait of one select() call of its output loop.
SSH_TIMEOUT == 60
OUTPUT_TIMEOUT == 300
SELECT_TIMEOUT == 1

\* The ports wait_for_host_reboot probes (literals of its connect_ex calls).
WAIT_SSH_PORT == 22
WAIT_API_PORT == 443

\* Ports of a host descriptor: the defaults of ESXiHost, and a host that is
\* configured with other ports.
DefaultPorts == [ssh |-> 22, api |-> 443]
HostPorts == {DefaultPorts, [ssh |-> 2222, api |-> 8443]}

\* Host names of the configuration ([host_*] sections, key "name").
HostNames == {"esx1", "esx2", "esx3"}

\* graceful_timeout values check_and_shutdown_vms is exercised with on its own.
Timeouts == {0, 3, 5, 12}

\* [patch] patch_file: not configured, configured but missing on disk,
\* configured and present with a name install_patch_via_ssh has a command
\* for (.zip, .vib, .iso), configured and present with any other name.
PatchKinds == {"none", "missing", "present", "unsupported"}

\* config.ini: absent, unreadable or with a host section that lacks a
\* mandatory field, without any [host_*] section, or with hosts.
Configs == {"missing", "invalid", "no_hosts", "ok"}

\* exit_code while the process runs.
NoExit == -1

\* remote_size before the remote stat, wait_start before it is assigned.
NoSize == -1
NoTime == -1

VARIABLES
    \* ---- run()
    hosts,            \* self.hosts: sequence of host names
    patch,            \* self.patch_file, as one of PatchKinds
    runPc,            \* position in run()
    tested,           \* number of hosts the pre-test loop has handled
    i,                \* loop index of "for i, host in enumerate(self.hosts, 1)"
    results,          \* the dict results: host name -> (success, message)
    runResult,        \* return value of run(): "none" until it returns
    \* ---- process_host()
    pc,               \* position in process_host / check_and_shutdown_vms
    api_connection,   \* handle: 0 is None, else an index into sessions
    ssh_client,       \* handle: 0 is None, else an index into sessions
    sessions,         \* sessions opened in this host's run: [kind, open]
    is_clustered,
    attempt,          \* reconnect loop counter
    vm_result,        \* result of check_and_shutdown_vms: "unset" before the call
    ret,              \* value of the return statement reached (NoRet before)
    \* ---- check_and_shutdown_vms()
    graceful_timeout,
    vm_ids,           \* number of ids in the listing (ids are 1..vm_ids)
    vm,               \* index of the workload being handled
    failed_vms,       \* set of ids in failed_vms
    elapsed,          \* time.time() - start
    \* ---- environment budget
    limited,          \* TRUE: the environment injects at most MaxFaults failures
    faults,           \* failures injected so far (counted only when limited)
    \* ---- history (not read by the program)
    trace,            \* operations issued to the host in this host's run
    last,             \* the last step that returned and its result
    firstFail,        \* first fatal step that returned failure, or "exception"
    nfAllFailed,      \* no non-fatal step of this host's run has succeeded
    vmObs,            \* per workload of the current check_and_shutdown_vms
                      \* call: which poll of the graceful loop saw Off
    vmWas,            \* ... its power state when its turn came
    vmLast,           \* ... what was last sent for it: a command, or a state
                      \* query and what the query reported
    calls,            \* host indices process_host was called for, in order
    rets,             \* what each of those calls returned
    pauses,           \* number of pauses run() has made between hosts
    \* ---- main()
    config,           \* config.ini, as one of Configs
    exit_code,        \* argument of the sys.exit reached (NoExit before)
    ended,            \* history: how calls of the run ended (maintenance mode, cleanup)
    \* ---- a method exercised on its own
    unit,             \* which one ("none" in a whole run)
    u_pc,             \* position in the method
    u_ret,            \* its return value: "none" before it returns
    u_sent,           \* what it has sent to the host, in order
    u_failed,         \* the call to the host that raised, or "none"
    patch_name,       \* self.patch_name: a sequence of characters
    local_size,       \* os.path.getsize(self.patch_file)
    remote_size,      \* st_size of the uploaded file (NoSize before the stat)
    inMaintenanceMode,\* host_obj.runtime.inMaintenanceMode
    m_calls,          \* the maintenance-mode calls made so far
    timeout,          \* argument of wait_for_host_reboot
    w_i,              \* i of "for i in range(60)"
    now,              \* time.time() - start_time
    wait_start,       \* wait_start - start_time (NoTime before the up stage)
    host_went_down,
    up_seen,          \* ports seen reachable by the up stage: "none", "ssh", "ssh_api"
    host_ports,       \* host.ssh_port and host.api_port of the descriptor
    probed,           \* the ports wait_for_host_reboot has probed
    stdout_output     \* ssh_execute_with_output: chunks of output received

runVars == <<hosts, patch, runPc, tested, i, results, runResult>>
hostVars == <<pc, api_connection, ssh_client, sessions, is_clustered, attempt,
              vm_result, ret>>
vmVars == <<graceful_timeout, vm_ids, vm, failed_vms, elapsed>>
envVars == <<limited, faults>>
histVars == <<trace, last, firstFail, nfAllFailed, vmObs, vmWas, vmLast, calls, rets>>
mainVars == <<config, exit_code>>
unitVars == <<unit, u_pc, u_ret, u_sent, u_failed, patch_name, local_size, remote_size,
              inMaintenanceMode, m_calls, timeout, w_i, now, wait_start,
              host_went_down, up_seen, host_ports, probed, stdout_output>>
wholeVars == <<runVars, hostVars, vmVars, envVars, histVars, mainVars, pauses, ended>>
restVars == <<mainVars, pauses, ended, unitVars>>
vars == <<runVars, hostVars, vmVars, envVars, histVars, restVars>>

\* ------------------------------------------------------------------ values
NoRet == [ok |-> FALSE, msg |-> "no_return"]
NoResult == [ok |-> FALSE, msg |-> "absent"]
NoStep == [step |-> "none", ok |-> TRUE]
NoObs == [w \in 1..MaxVMs |-> "none"]
NoEnded == [enter |-> "none", exit |-> "none", cleanup |-> "none", listing |-> "none"]

Ev(op, w) == [op |-> op, vm |-> w]


\* ------------------------------------------------------------- environment
\* Every call to a collaborator has one nominal reply.  An unlimited
\* environment gives any reply the call can give; a limited one gives, in
\* the whole run, at most MaxFaults replies that are not the nominal one.
\* Replies(S, nominal, used): the replies of a call, after `used` other
\* non-nominal replies in the same step.
Replies(S, nominal, used) ==
    IF limited /\ faults + used >= MaxFaults THEN {nominal} ELSE S
Cost(x, nominal) == IF limited /\ x # nominal THEN 1 ELSE 0

\* Results a wrapped collaborator call can give: True, or False / None.
Outcomes == Replies(BOOLEAN, TRUE, 0)
Charge(ok) == faults' = faults + Cost(ok, TRUE)

\* Power states a "vim-cmd vmsvc/power.getstate" can report; "fail" is a
\* non-zero exit code or an SSH error.
PowerStates == {"on", "off", "fail"}

\* -------------------------------------------------- step classes (history)
\* Steps whose failure the workflow treats as fatal / as non-fatal.
FatalSteps == {"api_connect", "get_host", "ssh_connect", "find_datastore",
               "copy_patch", "enter_mm", "install_patch", "reboot",
               "wait_reboot", "reconnect_api", "get_host_after"}
NonFatalSteps == {"enable_services", "wait_ssh", "shutdown_vms", "verify_patch",
                  "cleanup_patch", "ssh_reconnect", "exit_mm", "start_vms",
                  "disable_services"}

\* History update of a step that returned `ok` after issuing the operations evs.
Hist(step, ok, evs) ==
    /\ trace' = trace \o evs
    /\ last' = [step |-> step, ok |-> ok]
    /\ firstFail' = IF ~ok /\ step \in FatalSteps \cup {"exception"} /\ firstFail = "none"
                    THEN step ELSE firstFail
    /\ nfAllFailed' = (nfAllFailed /\ ~(ok /\ step \in NonFatalSteps))
    /\ UNCHANGED <<calls, rets>>

\* A step the code passes over (the else branch of its condition): nothing
\* is sent to the host.
Skipped(step) ==
    /\ Hist(step, TRUE, <<>>)
    /\ UNCHANGED faults

\* ------------------------------------------------- process_host: helpers
\* The reasons process_host returns with (the Russian literals of the source).
ReasonApiConnect == "api_connect_error"
ReasonGetHost == "host_object_error"
ReasonSshConnect == "ssh_connect_failed"
ReasonDatastore == "datastore_not_found"
ReasonCopy == "patch_copy_failed"
ReasonMaintenance == "enter_maintenance_failed"
ReasonInstall == "patch_install_failed"
ReasonReboot == "reboot_error"
ReasonWaitReboot == "host_not_back_after_reboot"
ReasonReconnect == "reconnect_failed_after_reboot"
\* Mutant of ReasonGetHostAfter: the message of the first resolve, reused.
ReasonGetHostAfterSame == "host_object_error"
ReasonGetHostAfter == "host_object_error_after_reboot"
ReasonException == "exception"
ReasonSuccess == "success"

\* Mutant of ReturnFail: the failure is noted but the run goes on to the
\* service-disable step instead of leaving the try block.
ReturnFailThenDisable(reason) ==
    /\ ret' = [ok |-> FALSE, msg |-> reason]
    /\ pc' = "disable_services"

\* "return False, reason" inside the try block: the finally clause runs next.
ReturnFail(reason) ==
    /\ ret' = [ok |-> FALSE, msg |-> reason]
    /\ pc' = "finally"

\* A step that passed: go on with the step at `next`.
Continue(next) ==
    /\ pc' = next
    /\ UNCHANGED ret

Open(kind) == Append(sessions, [kind |-> kind, open |-> TRUE])
Closed(ss, h) == IF h = 0 THEN ss ELSE [ss EXCEPT ![h].open = FALSE]

\* Mutant of AfterCopy: the workloads are shut down first on every topology.
AfterCopyShutdownFirst == "vm_list"

\* The step after the patch upload, and after the first / second half of
\* the topology branch (lines 939-962).
AfterCopy == IF is_clustered THEN "enter_mm" ELSE "vm_list"
AfterEnterMaintenance == IF is_clustered THEN "vm_list" ELSE "install"
AfterShutdownVms == IF is_clustered THEN "install" ELSE "enter_mm"

\* ------------------------- enter_maintenance_mode, exit_maintenance_mode
\* What the host does with a call: it cannot be read at all ("unreachable"),
\* or, when a task is submitted, the task succeeds, ends in error, or is not
\* finished when _wait_for_task gives up.
MaintReplies == {"success", "error", "timeout", "unreachable"}

\* The outcome of one call: the value returned, the number of tasks
\* submitted, inMaintenanceMode when the method returns.
MaintOutcome(result, tasks, after) == [result |-> result, tasks |-> tasks, after |-> after]

\* A transition that submits its task without reading the state first comes
\* before each method; a host already in the target state refuses the task.
enter_maintenance_mode_unread(inMM, reply) ==
    IF reply = "unreachable" THEN MaintOutcome(FALSE, 0, inMM)
    ELSE IF reply = "success" /\ ~inMM THEN MaintOutcome(TRUE, 1, TRUE)
    ELSE MaintOutcome(FALSE, 1, inMM)

enter_maintenance_mode(inMM, reply) ==
    IF reply = "unreachable" THEN MaintOutcome(FALSE, 0, inMM)
    ELSE IF inMM THEN MaintOutcome(TRUE, 0, inMM)
    ELSE IF reply = "success" THEN MaintOutcome(TRUE, 1, TRUE)
    ELSE MaintOutcome(FALSE, 1, inMM)

exit_maintenance_mode(inMM, reply) ==
    IF reply = "unreachable" THEN MaintOutcome(FALSE, 0, inMM)
    ELSE IF ~inMM THEN MaintOutcome(TRUE, 0, inMM)
    ELSE IF reply = "success" THEN MaintOutcome(TRUE, 1, FALSE)
    ELSE MaintOutcome(FALSE, 1, inMM)

\* How a call ended, for the history: "ok" when it returned True, the reason
\* of the False otherwise.
MaintEnded(out, reply) == IF out.result THEN "ok" ELSE reply

\* ------------------------------------------------- process_host: the steps
\* lines 929, 965, 982: "self.patch_file and os.path.exists(self.patch_file)".
\* Steps that do not look at the configuration come first.
HasPatchFileUnchecked == TRUE
HasPatchFile == patch \in {"present", "unsupported"}

\* lines 886-891
ConnectApi ==
    /\ pc = "connect_api"
    /\ \E ok \in Outcomes :
        /\ Charge(ok)
        /\ Hist("api_connect", ok, <<Ev("connect_api", 0)>>)
        /\ IF ok
           THEN /\ sessions' = Open("api")
                /\ api_connection' = Len(sessions) + 1
                /\ Continue("get_host")
           ELSE /\ ReturnFail(ReasonApiConnect)
                /\ UNCHANGED <<sessions, api_connection>>
    /\ UNCHANGED <<runVars, ssh_client, is_clustered, attempt, vmVars, vm_result, limited, vmObs, vmWas, vmLast>>
    /\ UNCHANGED restVars

\* lines 893-898: _get_host_system, then is_host_in_cluster
GetHostSystem ==
    /\ pc = "get_host"
    /\ \E r \in Replies({"none", "standalone", "clustered"}, "standalone", 0) :
        /\ faults' = faults + Cost(r, "standalone")
        /\ Hist("get_host", r # "none", <<Ev("get_host", 0)>>)
        /\ IF r # "none"
           THEN /\ is_clustered' = (r = "clustered")
                /\ Continue("enable_services")
           ELSE /\ ReturnFail(ReasonGetHost)
                /\ UNCHANGED is_clustered
    /\ UNCHANGED <<runVars, api_connection, ssh_client, sessions, attempt, vmVars,
                   vm_result, limited, vmObs, vmWas, vmLast>>
    /\ UNCHANGED restVars

\* lines 900-905
EnableServices ==
    /\ pc = "enable_services"
    /\ \E ok \in Outcomes :
        /\ Charge(ok)
        /\ Hist("enable_services", ok, <<Ev("enable_services", 0)>>)
    /\ Continue("wait_ssh")
    /\ UNCHANGED <<runVars, api_connection, ssh_client, sessions, is_clustered,
                   attempt, vmVars, vm_result, limited, vmObs, vmWas, vmLast>>
    /\ UNCHANGED restVars

\* lines 907-912
WaitForSsh ==
    /\ pc = "wait_ssh"
    /\ \E ok \in Outcomes :
        /\ Charge(ok)
        /\ Hist("wait_ssh", ok, <<Ev("wait_ssh", 0)>>)
    /\ Continue("ssh_connect")
    /\ UNCHANGED <<runVars, api_connection, ssh_client, sessions, is_clustered,
                   attempt, vmVars, vm_result, limited, vmObs, vmWas, vmLast>>
    /\ UNCHANGED restVars

\* lines 914-919
SshConnect ==
    /\ pc = "ssh_connect"
    /\ \E ok \in Outcomes :
        /\ Charge(ok)
        /\ Hist("ssh_connect", ok, <<Ev("ssh_connect", 0)>>)
        /\ IF ok
           THEN /\ sessions' = Open("ssh")
                /\ ssh_client' = Len(sessions) + 1
                /\ Continue("find_datastore")
           ELSE /\ ReturnFail(ReasonSshConnect)
                /\ UNCHANGED <<sessions, ssh_client>>
    /\ UNCHANGED <<runVars, api_connection, is_clustered, attempt, vmVars, vm_result, limited, vmObs, vmWas, vmLast>>
    /\ UNCHANGED restVars

\* lines 921-926
FindDatastore ==
    /\ pc = "find_datastore"
    /\ \E ok \in Outcomes :
        /\ Charge(ok)
        /\ Hist("find_datastore", ok, <<Ev("find_datastore", 0)>>)
        /\ IF ok THEN Continue("copy_patch") ELSE ReturnFail(ReasonDatastore)
    /\ UNCHANGED <<runVars, api_connection, ssh_client, sessions, is_clustered,
                   attempt, vmVars, vm_result, limited, vmObs, vmWas, vmLast>>
    /\ UNCHANGED restVars

\* lines 928-939: the upload, skipped when no patch file is configured or the
\* file does not exist; then the topology branch chooses what comes next.
\* lines 932-933: a False from the copy returns.  A step that only notes the
\* failure and goes on comes first.
CopyFailureIgnored == Continue(AfterCopy)
AfterCopyFailure == ReturnFail(ReasonCopy)

CopyPatch ==
    /\ pc = "copy_patch"
    /\ IF HasPatchFile
       THEN \E ok \in Outcomes :
                /\ Charge(ok)
                /\ Hist("copy_patch", ok, <<Ev("copy_patch", 0)>>)
                /\ IF ok THEN Continue(AfterCopy) ELSE AfterCopyFailure
       ELSE /\ Continue(AfterCopy)
            /\ Skipped("copy_patch_skipped")
    /\ UNCHANGED <<runVars, api_connection, ssh_client, sessions, is_clustered,
                   attempt, vmVars, vm_result, limited, vmObs, vmWas, vmLast>>
    /\ UNCHANGED restVars

\* lines 942-943 (clustered) and 961-962 (standalone)
EnterFailureIgnored == Continue(AfterEnterMaintenance)
AfterEnterFailure == ReturnFail(ReasonMaintenance)

EnterMaintenance ==
    /\ pc = "enter_mm"
    /\ \E inMM \in Replies(BOOLEAN, FALSE, 0) :
        \E reply \in Replies(MaintReplies, "success", Cost(inMM, FALSE)) :
            /\ faults' = faults + Cost(inMM, FALSE) + Cost(reply, "success")
            /\ Hist("enter_mm", enter_maintenance_mode(inMM, reply).result, <<Ev("enter_mm", 0)>>)
            /\ ended' = [ended EXCEPT !.enter = MaintEnded(enter_maintenance_mode(inMM, reply), reply)]
            /\ IF enter_maintenance_mode(inMM, reply).result
               THEN Continue(AfterEnterMaintenance)
               ELSE AfterEnterFailure
    /\ UNCHANGED <<runVars, api_connection, ssh_client, sessions, is_clustered,
                   attempt, vmVars, vm_result, limited, vmObs, vmWas, vmLast>>
    /\ UNCHANGED <<mainVars, pauses, unitVars>>

\* ------------------------------------------------ check_and_shutdown_vms
\* Mutant of ShutdownReturns: process_host treats a False result as fatal.
ShutdownReturnsFatal(result, evs) ==
    /\ Hist("shutdown_vms", result, evs)
    /\ vm_result' = IF result THEN "true" ELSE "false"
    /\ IF result THEN Continue(AfterShutdownVms) ELSE ReturnFail("vms_not_stopped")
    /\ vm_ids' = 0
    /\ vm' = 0
    /\ failed_vms' = {}
    /\ elapsed' = 0
    /\ vmObs' = NoObs
    /\ vmWas' = NoObs
    /\ vmLast' = NoObs

\* "return result" of check_and_shutdown_vms, back in process_host (lines
\* 947-950 / 954-957: the result is only logged).
ShutdownReturns(result, evs) ==
    /\ Hist("shutdown_vms", result, evs)
    /\ vm_result' = IF result THEN "true" ELSE "false"
    /\ Continue(AfterShutdownVms)
    /\ vm_ids' = 0
    /\ vm' = 0
    /\ failed_vms' = {}
    /\ elapsed' = 0
    /\ vmObs' = NoObs
    /\ vmWas' = NoObs
    /\ vmLast' = NoObs

\* "continue" of the for loop over vm_ids (line 483), with failed_vms as
\* given: the next workload, or the final check after the last one.
NextVm(failed) ==
    /\ failed_vms' = failed
    /\ elapsed' = 0
    /\ vm' = vm + 1
    /\ pc' = IF vm + 1 <= vm_ids THEN "vm_state" ELSE "vm_final"
    /\ UNCHANGED <<vm_ids, ret>>

\* Replies of the listing command: the number of ids, or -1 when it fails.
ListingReplies == -1..MaxVMs

\* lines 469-481: the listing; a failed or empty listing returns True.
VmList ==
    /\ pc = "vm_list"
    /\ \E n \in Replies(ListingReplies, 1, 0) :
        /\ faults' = faults + Cost(n, 1)
        /\ ended' = [ended EXCEPT !.listing = IF n < 0 THEN "failed" ELSE "ok"]
        /\ IF n <= 0
            THEN ShutdownReturns(TRUE, <<Ev("list_vms", 0)>>)
            ELSE /\ vm_ids' = n
                 /\ vm' = 1
                 /\ failed_vms' = {}
                 /\ elapsed' = 0
                 /\ pc' = "vm_state"
                 /\ trace' = Append(trace, Ev("list_vms", 0))
                 /\ vmObs' = NoObs
                 /\ vmWas' = NoObs
                 /\ vmLast' = NoObs
                 /\ UNCHANGED <<ret, vm_result, last, firstFail, nfAllFailed, calls, rets>>
    /\ UNCHANGED <<runVars, api_connection, ssh_client, sessions, is_clustered,
                   attempt, graceful_timeout, limited>>
    /\ UNCHANGED <<mainVars, pauses, unitVars>>

\* Mutant of VmGetState: the graceful shutdown is sent without looking at
\* the state reported for the workload.
VmGetStateShutsDownAll ==
    /\ pc = "vm_state"
    /\ \E st \in {"on", "off"} :
        /\ trace' = Append(trace, Ev("power_shutdown", vm))
        /\ vmWas' = [vmWas EXCEPT ![vm] = st]
        /\ vmLast' = [vmLast EXCEPT ![vm] = "command"]
        /\ elapsed' = 0
        /\ pc' = "vm_poll"
    /\ UNCHANGED <<runVars, api_connection, ssh_client, sessions, is_clustered,
                   attempt, vm_result, ret, graceful_timeout, vm_ids, vm, failed_vms,
                   envVars, last, firstFail, nfAllFailed, vmObs, calls, rets>>
    /\ UNCHANGED restVars

\* lines 483-509: the state query of one workload and what follows it at
\* once: a forced power-off when the query failed, nothing when the workload
\* is not powered on, else the graceful shutdown command and start = now.
VmGetState ==
    /\ pc = "vm_state"
    /\ \E st \in Replies(PowerStates, "on", 0) :
        CASE st = "fail" ->
                \E success_force \in Replies(BOOLEAN, TRUE, 1),
                   was \in Replies({"on", "off"}, "on", 1) :
                    /\ faults' = faults + Cost(st, "on") + Cost(success_force, TRUE)
                    /\ trace' = Append(trace, Ev("power_off", vm))
                    /\ vmWas' = [vmWas EXCEPT ![vm] = was]
                    /\ vmLast' = [vmLast EXCEPT ![vm] = "command"]
                    /\ NextVm(IF success_force THEN failed_vms
                              ELSE failed_vms \cup {vm})
          [] st = "off" ->
                /\ faults' = faults + Cost(st, "on")
                /\ vmWas' = [vmWas EXCEPT ![vm] = "off"]
                /\ vmLast' = [vmLast EXCEPT ![vm] = "query_off"]
                /\ NextVm(failed_vms)
                /\ UNCHANGED trace
          [] st = "on" ->
                /\ trace' = Append(trace, Ev("power_shutdown", vm))
                /\ vmWas' = [vmWas EXCEPT ![vm] = "on"]
                /\ vmLast' = [vmLast EXCEPT ![vm] = "command"]
                /\ elapsed' = 0
                /\ pc' = "vm_poll"
                /\ UNCHANGED <<faults, vm_ids, vm, failed_vms, ret>>
    /\ UNCHANGED <<runVars, api_connection, ssh_client, sessions, is_clustered,
                   attempt, vm_result, graceful_timeout, limited,
                   last, firstFail, nfAllFailed, vmObs, calls, rets>>
    /\ UNCHANGED restVars

\* Where a poll sent `t` seconds after start lies: within the graceful
\* window, less than one poll interval after it, or beyond that.
Window(t) ==
    IF t <= graceful_timeout THEN "within"
    ELSE IF t < graceful_timeout + POLL_INTERVAL THEN "late"
    ELSE "beyond"

\* Mutant of GracefulLoopContinues: the loop test lets an iteration start
\* when exactly graceful_timeout has elapsed.
GracefulLoopContinuesAtLimit == elapsed <= graceful_timeout

\* line 511: the test of the graceful loop.
GracefulLoopContinues == elapsed < graceful_timeout

\* Seconds a state query of the graceful loop may take: the queries of one
\* loop take at most MaxLatency seconds in total (less than a poll interval),
\* so what they have taken so far is elapsed modulo the poll interval.
Latencies == 0..(MaxLatency - (elapsed % POLL_INTERVAL))

\* lines 511-520: one iteration of the graceful loop: the loop test, the
\* sleep, the state query (which takes d seconds), and "continue" when the
\* query reports Powered off.
VmPoll ==
    /\ pc = "vm_poll"
    /\ GracefulLoopContinues
    /\ \E r \in Replies(Latencies \X PowerStates, <<0, "on">>, 0) :
      LET d == r[1]
          st == r[2]
      IN
        /\ faults' = faults + Cost(r, <<0, "on">>)
        /\ IF st = "off"
           THEN /\ vmObs' = [vmObs EXCEPT ![vm] = Window(elapsed + POLL_INTERVAL)]
                /\ vmLast' = [vmLast EXCEPT ![vm] = "query_off"]
                /\ NextVm(failed_vms)
           ELSE /\ elapsed' = elapsed + POLL_INTERVAL + d
                /\ vmLast' = [vmLast EXCEPT ![vm] = "query_other"]
                /\ UNCHANGED <<pc, vm_ids, vm, failed_vms, ret, vmObs>>
    /\ UNCHANGED <<runVars, api_connection, ssh_client, sessions, is_clustered,
                   attempt, vm_result, graceful_timeout, limited,
                   trace, last, firstFail, nfAllFailed, vmWas, calls, rets>>
    /\ UNCHANGED restVars

\* lines 511, 522-539: the loop test fails; forced power-off, and when the
\* command succeeded a sleep and one more state query.
VmForceOff ==
    /\ pc = "vm_poll"
    /\ ~GracefulLoopContinues
    /\ \E ok_force \in Outcomes :
        /\ trace' = Append(trace, Ev("power_off", vm))
        /\ IF ~ok_force
           THEN /\ Charge(ok_force)
                /\ vmLast' = [vmLast EXCEPT ![vm] = "command"]
                /\ NextVm(failed_vms \cup {vm})
           ELSE \E st \in Replies(PowerStates, "off", 0) :
                    /\ faults' = faults + Cost(st, "off")
                    /\ vmLast' = [vmLast EXCEPT ![vm] =
                                    IF st = "off" THEN "query_off" ELSE "query_other"]
                    /\ NextVm(IF st = "off" THEN failed_vms
                              ELSE failed_vms \cup {vm})
    /\ UNCHANGED <<runVars, api_connection, ssh_client, sessions, is_clustered,
                   attempt, vm_result, graceful_timeout, limited,
                   last, firstFail, nfAllFailed, vmObs, vmWas, calls, rets>>
    /\ UNCHANGED restVars

\* lines 541-550: False when failed_vms is not empty (after a second listing
\* whose result is not used), else True.
VmFinal ==
    /\ pc = "vm_final"
    /\ IF failed_vms # {}
       THEN ShutdownReturns(FALSE, <<Ev("list_vms", 0)>>)
       ELSE ShutdownReturns(TRUE, <<>>)
    /\ UNCHANGED <<runVars, api_connection, ssh_client, sessions, is_clustered,
                   attempt, graceful_timeout, envVars>>
    /\ UNCHANGED restVars

\* ------------------------------------- process_host: install to the reboot
\* lines 612-622: install_patch_via_ssh has a command for the artifact's
\* extension; without one it returns False before anything is sent.
SupportedExtension == patch # "unsupported"

\* lines 964-972: the install, skipped like the upload.
InstallPatch ==
    /\ pc = "install"
    /\ IF HasPatchFile
       THEN \E ok \in (IF SupportedExtension THEN Outcomes ELSE {FALSE}) :
                /\ faults' = faults + (IF SupportedExtension THEN Cost(ok, TRUE) ELSE 0)
                /\ Hist("install_patch", ok, <<Ev("install_patch", 0)>>)
                /\ IF ok THEN Continue("verify") ELSE ReturnFail(ReasonInstall)
       ELSE /\ Continue("verify")
            /\ Skipped("install_patch_skipped")
    /\ UNCHANGED <<runVars, api_connection, ssh_client, sessions, is_clustered,
                   attempt, vmVars, vm_result, limited, vmObs, vmWas, vmLast>>
    /\ UNCHANGED restVars

\* Mutant of VerifyPatch: a failed verification ends the run.
VerifyPatchFatal ==
    /\ pc = "verify"
    /\ \E ok \in Outcomes :
        /\ Charge(ok)
        /\ Hist("verify_patch", ok, <<Ev("verify_patch", 0)>>)
        /\ IF ok THEN Continue("cleanup") ELSE ReturnFail("verify_failed")
    /\ UNCHANGED <<runVars, api_connection, ssh_client, sessions, is_clustered,
                   attempt, vmVars, vm_result, limited, vmObs, vmWas, vmLast>>
    /\ UNCHANGED restVars

\* lines 974-979: called whether or not a patch is configured.
VerifyPatch ==
    /\ pc = "verify"
    /\ \E ok \in Outcomes :
        /\ Charge(ok)
        /\ Hist("verify_patch", ok, <<Ev("verify_patch", 0)>>)
    /\ Continue("cleanup")
    /\ UNCHANGED <<runVars, api_connection, ssh_client, sessions, is_clustered,
                   attempt, vmVars, vm_result, limited, vmObs, vmWas, vmLast>>
    /\ UNCHANGED restVars

\* line 985: the value cleanup_patch_file returns is not looked at.  A step
\* that returns when the removal failed comes first.
AfterCleanupChecked ==
    IF last'.ok THEN Continue("reboot") ELSE ReturnFail("cleanup_failed")
AfterCleanup == Continue("reboot")

\* lines 981-985: the result of cleanup_patch_file is dropped.
CleanupPatch ==
    /\ pc = "cleanup"
    /\ IF HasPatchFile
       THEN \E ok \in Outcomes :
                /\ Charge(ok)
                /\ Hist("cleanup_patch", ok, <<Ev("cleanup_patch", 0)>>)
                /\ ended' = [ended EXCEPT !.cleanup = IF ok THEN "ok" ELSE "failed"]
       ELSE Skipped("cleanup_patch_skipped") /\ UNCHANGED ended
    /\ AfterCleanup
    /\ UNCHANGED <<runVars, api_connection, ssh_client, sessions, is_clustered,
                   attempt, vmVars, vm_result, limited, vmObs, vmWas, vmLast>>
    /\ UNCHANGED <<mainVars, pauses, unitVars>>

\* lines 987-991
RebootHost ==
    /\ pc = "reboot"
    /\ \E ok \in Outcomes :
        /\ Charge(ok)
        /\ Hist("reboot", ok, <<Ev("reboot", 0)>>)
        /\ IF ok THEN Continue("close_sessions") ELSE ReturnFail(ReasonReboot)
    /\ UNCHANGED <<runVars, api_connection, ssh_client, sessions, is_clustered,
                   attempt, vmVars, vm_result, limited, vmObs, vmWas, vmLast>>
    /\ UNCHANGED restVars

\* What closing the sessions before the reboot can do: both calls return, or
\* ssh_client.close() raises, or Disconnect() raises.
CloseOutcomes == {"closed", "ssh_close_raises", "disconnect_raises"}

\* lines 993-997, and 1076-1079 when one of the two calls raises: a call that
\* raises leaves its session open, and the statements after it are skipped.
CloseBeforeReboot ==
    /\ pc = "close_sessions"
    /\ \E out \in Replies(CloseOutcomes, "closed", 0) :
        /\ faults' = faults + Cost(out, "closed")
        /\ CASE out = "closed" ->
                  /\ sessions' = Closed(Closed(sessions, ssh_client), api_connection)
                  /\ Hist("close_sessions", TRUE,
                          <<Ev("close_ssh", 0), Ev("disconnect_api", 0)>>)
                  /\ Continue("wait_reboot")
             [] out = "ssh_close_raises" ->
                  /\ UNCHANGED sessions
                  /\ Hist("exception", FALSE, <<Ev("close_ssh", 0)>>)
                  /\ ReturnFail(ReasonException)
             [] out = "disconnect_raises" ->
                  /\ sessions' = Closed(sessions, ssh_client)
                  /\ Hist("exception", FALSE,
                          <<Ev("close_ssh", 0), Ev("disconnect_api", 0)>>)
                  /\ ReturnFail(ReasonException)
    /\ UNCHANGED <<runVars, api_connection, ssh_client, is_clustered,
                   attempt, vmVars, vm_result, limited, vmObs, vmWas, vmLast>>
    /\ UNCHANGED restVars

\* lines 999-1007
WaitForReboot ==
    /\ pc = "wait_reboot"
    /\ \E ok \in Outcomes :
        /\ Charge(ok)
        /\ Hist("wait_reboot", ok, <<Ev("wait_reboot", 0)>>)
        /\ IF ok THEN Continue("reconnect") ELSE ReturnFail(ReasonWaitReboot)
    /\ attempt' = 0
    /\ UNCHANGED <<runVars, api_connection, ssh_client, sessions, is_clustered,
                   vmVars, vm_result, limited, vmObs, vmWas, vmLast>>
    /\ UNCHANGED restVars

\* ---------------------------------------- process_host: after the reboot
\* line 1025: a failed attempt is followed by the 30 s sleep unless it was the
\* last one.  A loop that sleeps after every failed attempt comes first.
BackoffAfterEvery(failed) == TRUE
BackoffAfter(failed) == failed < MAX_RETRIES

\* lines 1014-1030: one iteration of the reconnect loop; after the last
\* iteration (a success, or attempt max_retries - 1) the check of line 1029.
ReconnectApi ==
    /\ pc = "reconnect"
    /\ attempt < MAX_RETRIES
    /\ \E ok \in Outcomes :
        /\ Charge(ok)
        /\ IF ok
           THEN /\ sessions' = Open("api")
                /\ api_connection' = Len(sessions) + 1
                /\ Hist("reconnect_api", TRUE, <<Ev("connect_api", 0)>>)
                /\ Continue("get_host_after")
                /\ UNCHANGED attempt
           ELSE /\ api_connection' = 0
                /\ UNCHANGED sessions
                /\ attempt' = attempt + 1
                /\ IF attempt + 1 < MAX_RETRIES
                   THEN /\ trace' = trace \o <<Ev("connect_api", 0)>>
                                     \o (IF BackoffAfter(attempt + 1)
                                         THEN <<Ev("sleep_backoff", 0)>> ELSE <<>>)
                        /\ UNCHANGED <<pc, ret, last, firstFail, nfAllFailed, calls, rets>>
                   ELSE /\ Hist("reconnect_api", FALSE,
                                <<Ev("connect_api", 0)>>
                                \o (IF BackoffAfter(attempt + 1)
                                    THEN <<Ev("sleep_backoff", 0)>> ELSE <<>>))
                        /\ ReturnFail(ReasonReconnect)
    /\ UNCHANGED <<runVars, ssh_client, is_clustered, vmVars, vm_result, limited, vmObs, vmWas, vmLast>>
    /\ UNCHANGED restVars

\* lines 1032-1034
GetHostSystemAfter ==
    /\ pc = "get_host_after"
    /\ \E ok \in Outcomes :
        /\ Charge(ok)
        /\ Hist("get_host_after", ok, <<Ev("get_host", 0)>>)
        /\ IF ok THEN Continue("ssh_reconnect") ELSE ReturnFail(ReasonGetHostAfter)
    /\ UNCHANGED <<runVars, api_connection, ssh_client, sessions, is_clustered,
                   attempt, vmVars, vm_result, limited, vmObs, vmWas, vmLast>>
    /\ UNCHANGED restVars

\* lines 1036-1042: ssh_client is None when the reconnect fails.
SshReconnect ==
    /\ pc = "ssh_reconnect"
    /\ \E ok \in Outcomes :
        /\ Charge(ok)
        /\ Hist("ssh_reconnect", ok, <<Ev("ssh_connect", 0)>>)
        /\ IF ok
           THEN /\ sessions' = Open("ssh")
                /\ ssh_client' = Len(sessions) + 1
           ELSE /\ ssh_client' = 0
                /\ UNCHANGED sessions
    /\ Continue("exit_mm")
    /\ UNCHANGED <<runVars, api_connection, is_clustered, attempt, vmVars, vm_result, limited, vmObs, vmWas, vmLast>>
    /\ UNCHANGED restVars

\* lines 1047-1049: whatever exit_maintenance_mode returned, a warning at
\* most, and the workflow goes on.  A workflow that returns the failure of the
\* exit, as it does for the entry, comes first.
AfterExitMaintenanceFatal ==
    IF last'.ok THEN Continue("start_vms") ELSE ReturnFail(ReasonMaintenance)
AfterExitMaintenance == Continue("start_vms")

\* lines 1044-1049
ExitMaintenance ==
    /\ pc = "exit_mm"
    /\ \E inMM \in Replies(BOOLEAN, TRUE, 0) :
        \E reply \in Replies(MaintReplies, "success", Cost(inMM, TRUE)) :
            /\ faults' = faults + Cost(inMM, TRUE) + Cost(reply, "success")
            /\ Hist("exit_mm", exit_maintenance_mode(inMM, reply).result, <<Ev("exit_mm", 0)>>)
            /\ ended' = [ended EXCEPT !.exit = MaintEnded(exit_maintenance_mode(inMM, reply), reply)]
    /\ AfterExitMaintenance
    /\ UNCHANGED <<runVars, api_connection, ssh_client, sessions, is_clustered,
                   attempt, vmVars, vm_result, limited, vmObs, vmWas, vmLast>>
    /\ UNCHANGED <<mainVars, pauses, unitVars>>

\* The power-on commands start_vms_after_reboot sends for the workloads in S,
\* in listing order.
RECURSIVE PowerOns(_, _)
PowerOns(w, S) ==
    IF w > MaxVMs THEN <<>>
    ELSE (IF w \in S THEN <<Ev("power_on", w)>> ELSE <<>>) \o PowerOns(w + 1, S)

\* line 1052: the condition of the restart step.  A condition that looks at
\* the topology alone comes first.
RestartAppliesStandalone == ~is_clustered
RestartApplies == ~is_clustered /\ ssh_client # 0

\* lines 1051-1057 with start_vms_after_reboot (557-601): only on a
\* standalone host with an SSH session; a power-on goes to every listed
\* workload whose state query reports Powered off (the set S).
StartVms ==
    /\ pc = "start_vms"
    /\ IF RestartApplies
       THEN \E r \in Replies(BOOLEAN \X SUBSET (1..MaxVMs), <<TRUE, {1}>>, 0) :
                /\ faults' = faults + Cost(r, <<TRUE, {1}>>)
                /\ Hist("start_vms", r[1], <<Ev("list_vms", 0)>> \o PowerOns(1, r[2]))
       ELSE Skipped("start_vms_skipped")
    /\ Continue("disable_services")
    /\ UNCHANGED <<runVars, api_connection, ssh_client, sessions, is_clustered,
                   attempt, vmVars, vm_result, limited, vmObs, vmWas, vmLast>>
    /\ UNCHANGED restVars

\* lines 1059-1074: the last step, then "return True, ...".
DisableServices ==
    /\ pc = "disable_services"
    /\ \E ok \in Outcomes :
        /\ Charge(ok)
        /\ Hist("disable_services", ok, <<Ev("disable_services", 0)>>)
    /\ ret' = [ok |-> TRUE, msg |-> ReasonSuccess]
    /\ pc' = "finally"
    /\ UNCHANGED <<runVars, api_connection, ssh_client, sessions, is_clustered,
                   attempt, vmVars, vm_result, limited, vmObs, vmWas, vmLast>>
    /\ UNCHANGED restVars

\* Mutant of FinallyCloses: the finally clause forgets the API session.
FinallyClosesSshOnly == Closed(sessions, ssh_client)

\* The sessions after the finally clause closed the ones the two handles
\* name (errors of the close calls are swallowed).
FinallyCloses == Closed(Closed(sessions, ssh_client), api_connection)

\* What the finally clause issues: a close for every handle that is not None.
FinallyEvents ==
    (IF ssh_client # 0 THEN <<Ev("close_ssh", 0)>> ELSE <<>>)
    \o (IF api_connection # 0 THEN <<Ev("disconnect_api", 0)>> ELSE <<>>)

\* lines 1081-1093, then process_host returns ret.
Finally ==
    /\ pc = "finally"
    /\ sessions' = FinallyCloses
    /\ trace' = trace \o FinallyEvents
    /\ pc' = "returned"
    /\ UNCHANGED <<runVars, api_connection, ssh_client, is_clustered, attempt, ret,
                   vm_result, vmVars, envVars, last, firstFail, nfAllFailed, vmObs, vmWas, vmLast,
                   calls, rets>>
    /\ UNCHANGED restVars

\* ------------------------------------------------------------------ run()
\* The locals of process_host and the history of a host's run, before the
\* first step (lines 882-883).
FreshHostRun ==
    /\ api_connection' = 0
    /\ ssh_client' = 0
    /\ sessions' = <<>>
    /\ is_clustered' = FALSE
    /\ attempt' = 0
    /\ vm_result' = "unset"
    /\ ret' = NoRet
    /\ trace' = <<>>
    /\ last' = NoStep
    /\ firstFail' = "none"
    /\ nfAllFailed' = TRUE
    /\ vmObs' = NoObs
    /\ vmWas' = NoObs
    /\ vmLast' = NoObs
    /\ ended' = NoEnded

\* lines 1113-1124: one iteration of the pre-test loop (test_connection's
\* result is only printed); after the last one the main loop starts.
TestConnection ==
    /\ runPc = "pretest"
    /\ tested < Len(hosts)
    /\ tested' = tested + 1
    /\ runPc' = IF tested + 1 = Len(hosts) THEN "loop" ELSE "pretest"
    /\ UNCHANGED <<hosts, patch, i, results, runResult, hostVars, vmVars, envVars,
                   histVars>>
    /\ UNCHANGED restVars

\* lines 1126-1130 and 872-883: the call of process_host for hosts[i].
CallProcessHost ==
    /\ runPc = "loop"
    /\ pc = "idle"
    /\ i <= Len(hosts)
    /\ pc' = "connect_api"
    /\ FreshHostRun
    /\ calls' = Append(calls, i)
    /\ UNCHANGED <<runVars, vmVars, envVars, rets>>
    /\ UNCHANGED <<mainVars, pauses, unitVars>>

\* Mutant of LoopOrReport: the loop ends at the first host that failed.
LoopOrReportStopOnFailure == IF i < Len(hosts) /\ ret.ok THEN "loop" ELSE "report"

\* line 1126: the for loop goes on with the next host, whatever the result
\* of this one, and ends after the last.
LoopOrReport == IF i < Len(hosts) THEN "loop" ELSE "report"

\* One pause after every host, the last one included, comes first.
PauseAfterEveryHost == IF i <= Len(hosts) THEN 1 ELSE 0

\* lines 1133-1137: one pause of 30 seconds unless this was the last host.
PauseAfterHost == IF i < Len(hosts) THEN 1 ELSE 0

\* lines 1130-1137: process_host has returned; its result is stored under
\* the host's name, then the pause unless this was the last host.
RecordResult ==
    /\ runPc = "loop"
    /\ pc = "returned"
    /\ results' = [results EXCEPT ![hosts[i]] = ret]
    /\ rets' = Append(rets, ret)
    /\ i' = i + 1
    /\ runPc' = LoopOrReport
    /\ pc' = "idle"
    /\ FreshHostRun
    /\ pauses' = pauses + PauseAfterHost
    /\ UNCHANGED <<hosts, patch, tested, runResult, vmVars, envVars, calls>>
    /\ UNCHANGED <<mainVars, unitVars>>

\* lines 1146-1157: the entries of results that are failures.
FailCount == Cardinality({n \in HostNames : results[n] # NoResult /\ ~results[n].ok})

\* lines 1139-1162
Report ==
    /\ runPc = "report"
    /\ runResult' = (FailCount = 0)
    /\ runPc' = "done"
    /\ UNCHANGED <<hosts, patch, tested, i, results, hostVars, vmVars, envVars,
                   histVars>>
    /\ UNCHANGED restVars

\* ------------------------------------------------------------- main()
\* sys.exit(code)
Exit(code) ==
    /\ exit_code' = code
    /\ runPc' = "exited"

\* Mutant of LoadConfig: run() is called whatever the configuration holds.
LoadConfigUnchecked ==
    /\ runPc = "main"
    /\ runPc' = "pretest"
    /\ UNCHANGED <<hosts, patch, tested, i, results, runResult, hostVars, vmVars,
                   envVars, histVars, restVars>>

\* lines 1167-1204 and 59-110: main finds no config.ini (it writes a sample
\* and exits), or the constructor raises (unreadable file, missing mandatory
\* field, no host section: lines 97, 109-110) and the handler of line 1217
\* exits, or the patcher is constructed and run() is called.
LoadConfig ==
    /\ runPc = "main"
    /\ IF config = "ok"
       THEN runPc' = "pretest" /\ UNCHANGED exit_code
       ELSE Exit(EXIT_ERROR)
    /\ UNCHANGED <<hosts, patch, tested, i, results, runResult, hostVars, vmVars,
                   envVars, histVars, config, pauses, ended, unitVars>>

\* lines 1205-1212: the exit code after run() has returned.
MainExit ==
    /\ runPc = "done"
    /\ Exit(IF runResult THEN EXIT_OK ELSE EXIT_ERROR)
    /\ UNCHANGED <<hosts, patch, tested, i, results, runResult, hostVars, vmVars,
                   envVars, histVars, config, pauses, ended, unitVars>>

\* lines 1214-1216: Ctrl-C while run() is at work. KeyboardInterrupt is not
\* an Exception, so no handler of the class catches it: in process_host the
\* finally block (1081-1093) closes the sessions on the way out, nothing is
\* returned or recorded, and main exits with 130. The two bare "except:" of
\* that finally block do catch it: an interrupt that arrives during one of
\* its close calls is dropped and the run goes on (swallowed).
Interrupt ==
    /\ runPc \in {"pretest", "loop", "report"}
    /\ "interrupt" \in Replies({"none", "interrupt"}, "none", 0)
    /\ faults' = faults + Cost("interrupt", "none")
    /\ \E swallowed \in (IF pc = "finally" /\ (ssh_client # 0 \/ api_connection # 0)
                          THEN BOOLEAN ELSE {FALSE}) :
        IF swallowed
        THEN /\ sessions' = FinallyCloses
             /\ trace' = trace \o FinallyEvents
             /\ pc' = "returned"
             /\ UNCHANGED <<runPc, exit_code, api_connection, ssh_client, is_clustered,
                            attempt, vm_result, ret, vmVars, last, firstFail,
                            nfAllFailed, vmObs, vmWas, vmLast, ended>>
        ELSE /\ Exit(EXIT_INTERRUPTED)
             /\ pc' = "interrupted"
             /\ sessions' = IF pc \in {"idle", "returned"} THEN sessions ELSE FinallyCloses
             /\ api_connection' = 0
             /\ ssh_client' = 0
             /\ is_clustered' = FALSE
             /\ attempt' = 0
             /\ vm_result' = "unset"
             /\ ret' = NoRet
             /\ trace' = <<>>
             /\ last' = NoStep
             /\ firstFail' = "none"
             /\ nfAllFailed' = TRUE
             /\ vmObs' = NoObs
             /\ vmWas' = NoObs
             /\ vmLast' = NoObs
             /\ vm_ids' = 0
             /\ vm' = 0
             /\ failed_vms' = {}
             /\ elapsed' = 0
             /\ ended' = NoEnded
             /\ UNCHANGED graceful_timeout
    /\ UNCHANGED <<hosts, patch, tested, i, results, runResult, limited, calls, rets,
                   config, pauses, unitVars>>

\* ------------------------------------------------------- specifications
\* The variables of the methods exercised on their own, before a call.
UnitIdle(u) ==
    /\ unit = u
    /\ u_pc = "start"
    /\ u_ret = "none"
    /\ u_sent = <<>>
    /\ u_failed = "none"
    /\ patch_name = <<>>
    /\ local_size = 0
    /\ remote_size = NoSize
    /\ inMaintenanceMode = FALSE
    /\ m_calls = <<>>
    /\ timeout = 0
    /\ w_i = 0
    /\ now = 0
    /\ wait_start = NoTime
    /\ host_went_down = FALSE
    /\ up_seen = "none"
    /\ host_ports = DefaultPorts
    /\ probed = {}
    /\ stdout_output = 0

RECURSIVE SeqsUpTo(_, _)
SeqsUpTo(S, n) ==
    IF n = 0 THEN {<<>>}
    ELSE LET shorter == SeqsUpTo(S, n - 1)
         IN  shorter \cup {Append(q, x) : q \in shorter, x \in S}

\* The host lists of a configuration: _load_config rejects the empty one.
\* Names may repeat.  Lists that differ only by a renaming of the hosts
\* behave alike, so each new name of a list is the first unused one.
NameRank == [n \in HostNames |-> CASE n = "esx1" -> 1 [] n = "esx2" -> 2 [] OTHER -> 3]
FirstUse(q) ==
    \A k \in 1..Len(q) :
        \/ NameRank[q[k]] = 1
        \/ \E j \in 1..(k - 1) : NameRank[q[j]] = NameRank[q[k]] - 1
HostLists == {q \in SeqsUpTo(HostNames, MaxHosts) : q # <<>> /\ FirstUse(q)}

InitRun(lists, patches, lim) ==
    /\ config \in Configs
    /\ hosts \in (IF config = "ok" THEN lists ELSE {<<>>})
    /\ patch \in (IF config = "ok" THEN patches ELSE {"none"})
    /\ runPc = "main"
    /\ exit_code = NoExit
    /\ pauses = 0
    /\ ended = NoEnded
    /\ UnitIdle("none")
    /\ tested = 0
    /\ i = 1
    /\ results = [n \in HostNames |-> NoResult]
    /\ runResult = FALSE
    /\ pc = "idle"
    /\ api_connection = 0
    /\ ssh_client = 0
    /\ sessions = <<>>
    /\ is_clustered = FALSE
    /\ attempt = 0
    /\ vm_result = "unset"
    /\ ret = NoRet
    /\ graceful_timeout = DEFAULT_GRACEFUL_TIMEOUT
    /\ vm_ids = 0
    /\ vm = 0
    /\ failed_vms = {}
    /\ elapsed = 0
    /\ limited = lim
    /\ faults = 0
    /\ trace = <<>>
    /\ last = NoStep
    /\ firstFail = "none"
    /\ nfAllFailed = TRUE
    /\ vmObs = NoObs
    /\ vmWas = NoObs
    /\ vmLast = NoObs
    /\ calls = <<>>
    /\ rets = <<>>

HostStep ==
    \/ ConnectApi
    \/ GetHostSystem
    \/ EnableServices
    \/ WaitForSsh
    \/ SshConnect
    \/ FindDatastore
    \/ CopyPatch
    \/ EnterMaintenance
    \/ InstallPatch
    \/ VerifyPatch
    \/ CleanupPatch
    \/ RebootHost
    \/ CloseBeforeReboot
    \/ WaitForReboot
    \/ ReconnectApi
    \/ GetHostSystemAfter
    \/ SshReconnect
    \/ ExitMaintenance
    \/ StartVms
    \/ DisableServices
    \/ Finally

VmStep ==
    \/ VmList
    \/ VmGetState
    \/ VmPoll
    \/ VmForceOff
    \/ VmFinal

Next ==
    \/ LoadConfig
    \/ TestConnection
    \/ CallProcessHost
    \/ HostStep
    \/ VmStep
    \/ RecordResult
    \/ Report
    \/ MainExit
    \/ Interrupt

\* run() on a configuration with one host; the environment may fail any call.
Init == InitRun({<<"esx1">>}, PatchKinds, FALSE)
Spec == Init /\ [][Next]_vars

\* run() on every host list of up to MaxHosts hosts; the environment fails
\* at most MaxFaults calls in the whole run.
InitFleet == InitRun(HostLists, {"present"}, TRUE)
SpecFleet == InitFleet /\ [][Next]_vars

\* check_and_shutdown_vms on its own, called with any graceful_timeout of
\* Timeouts on either topology; the environment may fail any call.
InitVM ==
    /\ config = "ok"
    /\ exit_code = NoExit
    /\ pauses = 0
    /\ ended = NoEnded
    /\ UnitIdle("none")
    /\ hosts = <<"esx1">>
    /\ patch = "none"
    /\ runPc = "loop"
    /\ tested = 1
    /\ i = 1
    /\ results = [n \in HostNames |-> NoResult]
    /\ runResult = FALSE
    /\ pc = "vm_list"
    /\ api_connection = 1
    /\ ssh_client = 2
    /\ sessions = <<[kind |-> "api", open |-> TRUE], [kind |-> "ssh", open |-> TRUE]>>
    /\ is_clustered \in BOOLEAN
    /\ attempt = 0
    /\ vm_result = "unset"
    /\ ret = NoRet
    /\ graceful_timeout \in Timeouts
    /\ vm_ids = 0
    /\ vm = 0
    /\ failed_vms = {}
    /\ elapsed = 0
    /\ limited = FALSE
    /\ faults = 0
    /\ trace = <<>>
    /\ last = NoStep
    /\ firstFail = "none"
    /\ nfAllFailed = TRUE
    /\ vmObs = NoObs
    /\ vmWas = NoObs
    /\ vmLast = NoObs
    /\ calls = <<1>>
    /\ rets = <<>>
SpecVM == InitVM /\ [][VmStep]_vars

\* ============================================ methods exercised on their own
\* The variables of a whole run, at rest while one method is exercised.
RunIdle ==
    /\ hosts = <<"esx1">>
    /\ runPc = "done"
    /\ tested = 0
    /\ i = 1
    /\ results = [h \in HostNames |-> NoResult]
    /\ runResult = FALSE
    /\ pc = "idle"
    /\ api_connection = 0
    /\ ssh_client = 0
    /\ sessions = <<>>
    /\ is_clustered = FALSE
    /\ attempt = 0
    /\ vm_result = "unset"
    /\ ret = NoRet
    /\ graceful_timeout = DEFAULT_GRACEFUL_TIMEOUT
    /\ vm_ids = 0
    /\ vm = 0
    /\ failed_vms = {}
    /\ elapsed = 0
    /\ limited = FALSE
    /\ faults = 0
    /\ trace = <<>>
    /\ last = NoStep
    /\ firstFail = "none"
    /\ nfAllFailed = TRUE
    /\ vmObs = NoObs
    /\ vmWas = NoObs
    /\ vmLast = NoObs
    /\ calls = <<>>
    /\ rets = <<>>
    /\ config = "ok"
    /\ exit_code = NoExit
    /\ pauses = 0
    /\ ended = NoEnded

\* A method returns.
Return(value) ==
    /\ u_ret' = value
    /\ u_pc' = "returned"

\* ------------------------------------------------- install_patch_via_ssh
\* File names are sequences of characters; the alphabet holds the letters of
\* the three known extensions and one capital.
NameChars == {".", "z", "i", "p", "v", "b", "s", "o", "Z"}
Names == SeqsUpTo(NameChars, MaxNameLen)

\* str.endswith
EndsWith(s, suffix) ==
    /\ Len(s) >= Len(suffix)
    /\ SubSeq(s, Len(s) - Len(suffix) + 1, Len(s)) = suffix

\* The command chosen for a name, "none" when the type is unknown.  The same
\* routing with the dot of the extension left out of the comparison comes
\* first.
InstallCommandNoDot(name) ==
    IF EndsWith(name, <<"z", "i", "p">>) THEN "vib_install_depot"
    ELSE IF EndsWith(name, <<"v", "i", "b">>) THEN "vib_install_vib"
    ELSE IF EndsWith(name, <<"i", "s", "o">>) THEN "profile_update_depot"
    ELSE "none"

InstallCommand(name) ==
    IF EndsWith(name, <<".", "z", "i", "p">>) THEN "vib_install_depot"
    ELSE IF EndsWith(name, <<".", "v", "i", "b">>) THEN "vib_install_vib"
    ELSE IF EndsWith(name, <<".", "i", "s", "o">>) THEN "profile_update_depot"
    ELSE "none"

\* Up to the command: no name or an unknown type returns False at once.
InstallRoute ==
    /\ unit = "install"
    /\ u_pc = "start"
    /\ IF patch_name = <<>> \/ InstallCommand(patch_name) = "none"
       THEN Return("false") /\ UNCHANGED u_sent
       ELSE /\ u_sent' = Append(u_sent, InstallCommand(patch_name))
            /\ u_pc' = "ssh_execute"
            /\ UNCHANGED u_ret
    /\ UNCHANGED <<unit, u_failed, patch_name, local_size, remote_size, inMaintenanceMode,
                   m_calls, timeout, w_i, now, wait_start, host_went_down, up_seen,
                   host_ports, probed, stdout_output>>
    /\ UNCHANGED wholeVars

\* ssh_execute_with_output answers, or raises.
InstallOutput ==
    /\ unit = "install"
    /\ u_pc = "ssh_execute"
    /\ \E reply \in {"success", "failure", "raises"} :
        /\ Return(IF reply = "success" THEN "true" ELSE "false")
        /\ u_failed' = IF reply = "raises" THEN "ssh_execute" ELSE "none"
    /\ UNCHANGED <<unit, u_sent, patch_name, local_size, remote_size, inMaintenanceMode,
                   m_calls, timeout, w_i, now, wait_start, host_went_down, up_seen,
                   host_ports, probed, stdout_output>>
    /\ UNCHANGED wholeVars

InstallStep == InstallRoute \/ InstallOutput

\* ---------------------------------------------------- copy_patch_via_scp
Sizes == 0..MaxSize
SftpReplies == {"ok", "raises"}

\* The comparison of the sizes.  A comparison that accepts a remote file at
\* least as large as the local one comes first.
SizesMatchAtLeast == remote_size >= local_size
SizesMatch == remote_size = local_size

\* An exception inside the try: logged, the method returns False.
CopyRaises(op) ==
    /\ u_failed' = op
    /\ Return("false")

CopyFrame == UNCHANGED <<unit, patch_name, local_size, inMaintenanceMode, m_calls, timeout,
                         w_i, now, wait_start, host_went_down, up_seen, host_ports, probed, stdout_output>>

\* No file configured, or none on disk: False before anything is opened.
CopyStart ==
    /\ unit = "copy"
    /\ u_pc = "start"
    /\ IF patch = "present"
       THEN u_pc' = "open_sftp" /\ UNCHANGED u_ret
       ELSE Return("false")
    /\ UNCHANGED <<u_sent, u_failed, remote_size>>
    /\ CopyFrame
    /\ UNCHANGED wholeVars

CopyOpenSftp ==
    /\ unit = "copy"
    /\ u_pc = "open_sftp"
    /\ u_sent' = Append(u_sent, "open_sftp")
    /\ \E reply \in SftpReplies :
        IF reply = "ok"
        THEN u_pc' = "stat_datastore" /\ UNCHANGED <<u_ret, u_failed>>
        ELSE CopyRaises("open_sftp")
    /\ UNCHANGED remote_size
    /\ CopyFrame
    /\ UNCHANGED wholeVars

\* The datastore cannot be read: the inner handler closes the channel and
\* returns False.
CopyStatDatastore ==
    /\ unit = "copy"
    /\ u_pc = "stat_datastore"
    /\ u_sent' = Append(u_sent, "stat_datastore")
    /\ \E reply \in SftpReplies :
        IF reply = "ok"
        THEN u_pc' = "put" /\ UNCHANGED <<u_ret, u_failed>>
        ELSE u_pc' = "close_no_datastore" /\ u_failed' = "stat_datastore" /\ UNCHANGED u_ret
    /\ UNCHANGED remote_size
    /\ CopyFrame
    /\ UNCHANGED wholeVars

CopyCloseNoDatastore ==
    /\ unit = "copy"
    /\ u_pc = "close_no_datastore"
    /\ u_sent' = Append(u_sent, "close")
    /\ Return("false")
    /\ UNCHANGED <<u_failed, remote_size>>
    /\ CopyFrame
    /\ UNCHANGED wholeVars

CopyPut ==
    /\ unit = "copy"
    /\ u_pc = "put"
    /\ u_sent' = Append(u_sent, "put")
    /\ \E reply \in SftpReplies :
        IF reply = "ok"
        THEN u_pc' = "stat_remote" /\ UNCHANGED <<u_ret, u_failed>>
        ELSE CopyRaises("put")
    /\ UNCHANGED remote_size
    /\ CopyFrame
    /\ UNCHANGED wholeVars

\* sftp.stat(remote_path) and os.path.getsize: the sizes are known, or one of
\* the two calls raises.
CopyStatRemote ==
    /\ unit = "copy"
    /\ u_pc = "stat_remote"
    /\ u_sent' = Append(u_sent, "stat_remote")
    /\ \E reply \in SftpReplies, st_size \in Sizes :
        IF reply = "ok"
        THEN remote_size' = st_size /\ u_pc' = "close" /\ UNCHANGED <<u_ret, u_failed>>
        ELSE CopyRaises("stat_remote") /\ UNCHANGED remote_size
    /\ CopyFrame
    /\ UNCHANGED wholeVars

\* Both branches of the comparison close the channel, then return; a close
\* that raises is caught by the outer handler.
CopyClose ==
    /\ unit = "copy"
    /\ u_pc = "close"
    /\ u_sent' = Append(u_sent, "close")
    /\ \E reply \in SftpReplies :
        IF reply = "ok"
        THEN Return(IF SizesMatch THEN "true" ELSE "false") /\ UNCHANGED u_failed
        ELSE CopyRaises("close")
    /\ UNCHANGED remote_size
    /\ CopyFrame
    /\ UNCHANGED wholeVars

\* process_host, step 6: a False from the copy ends the host's run.
CopyCaller ==
    /\ unit = "copy"
    /\ u_pc = "returned"
    /\ patch = "present"
    /\ u_pc' = IF u_ret = "true" THEN "process_host_continues" ELSE "process_host_returns_false"
    /\ UNCHANGED <<u_ret, u_sent, u_failed, remote_size>>
    /\ CopyFrame
    /\ UNCHANGED wholeVars

CopyStep ==
    \/ CopyStart
    \/ CopyOpenSftp
    \/ CopyStatDatastore
    \/ CopyCloseNoDatastore
    \/ CopyPut
    \/ CopyStatRemote
    \/ CopyClose
    \/ CopyCaller

\* ----------------------------------- the maintenance methods on their own
\* One call is made and returns.
MaintCall(op, reply, out) ==
    /\ m_calls' = Append(m_calls, [op |-> op, before |-> inMaintenanceMode, reply |-> reply,
                                   result |-> out.result, tasks |-> out.tasks,
                                   after |-> out.after])
    /\ inMaintenanceMode' = out.after
    /\ u_sent' = IF out.tasks = 1 THEN Append(u_sent, op) ELSE u_sent
    /\ Return(IF out.result THEN "true" ELSE "false")
    /\ UNCHANGED <<unit, u_failed, patch_name, local_size, remote_size, timeout, w_i, now,
                   wait_start, host_went_down, up_seen, host_ports, probed, stdout_output>>
    /\ UNCHANGED wholeVars

MaintEnter ==
    /\ unit = "maintenance"
    /\ Len(m_calls) < MaxCalls
    /\ \E reply \in MaintReplies :
        MaintCall("enter", reply, enter_maintenance_mode(inMaintenanceMode, reply))

MaintExit ==
    /\ unit = "maintenance"
    /\ Len(m_calls) < MaxCalls
    /\ \E reply \in MaintReplies :
        MaintCall("exit", reply, exit_maintenance_mode(inMaintenanceMode, reply))

MaintStep == MaintEnter \/ MaintExit

\* -------------------------------------------------- wait_for_host_reboot
\* connect_ex on a port: it connects, is refused at once, runs into the socket
\* timeout, or the socket call raises.
Probes == {"open", "refused", "timed_out", "raises"}
ProbeTime(probe) == IF probe = "timed_out" THEN PROBE_TIMEOUT ELSE 0
ProbeNonZero(probe) == probe \in {"refused", "timed_out"}

\* After the down stage the method goes on to the up stage whether or not the
\* host was seen down (a warning is all there is).  A down stage that gives up
\* when the host was never seen down comes first.
WaitGoesOnOnlyIfDown(went_down) == went_down
WaitGoesOn(went_down) == TRUE

WaitFrame == UNCHANGED <<unit, u_sent, u_failed, patch_name, local_size, remote_size,
                         inMaintenanceMode, m_calls, timeout, host_ports,
                         stdout_output>>

\* The down stage is left: wait_start is taken, or the method gives up.
LeaveDownStage(went_down, t) ==
    IF WaitGoesOn(went_down)
    THEN u_pc' = "up_ssh" /\ wait_start' = t /\ UNCHANGED u_ret
    ELSE Return("false") /\ UNCHANGED wait_start

\* One round of "for i in range(60)": a probe of the SSH port; non-zero breaks
\* out of the loop, anything else sleeps and goes round.
WaitDownProbe ==
    /\ unit = "wait"
    /\ u_pc = "start"
    /\ probed' = probed \cup {WAIT_SSH_PORT}
    /\ \E probe \in Probes :
        IF ProbeNonZero(probe)
        THEN /\ host_went_down' = TRUE
             /\ now' = now + ProbeTime(probe)
             /\ LeaveDownStage(TRUE, now + ProbeTime(probe))
             /\ UNCHANGED w_i
        ELSE /\ now' = now + PROBE_SLEEP
             /\ w_i' = w_i + 1
             /\ IF w_i + 1 < DOWN_ATTEMPTS
                THEN UNCHANGED <<u_pc, u_ret, wait_start>>
                ELSE LeaveDownStage(host_went_down, now + PROBE_SLEEP)
             /\ UNCHANGED host_went_down
    /\ UNCHANGED up_seen
    /\ WaitFrame
    /\ UNCHANGED wholeVars

\* The test of the while loop fails: the method returns False.
WaitTimeout ==
    /\ unit = "wait"
    /\ u_pc = "up_ssh"
    /\ ~(now - wait_start < MAX_WAIT)
    /\ Return("false")
    /\ UNCHANGED <<w_i, now, wait_start, host_went_down, up_seen, probed>>
    /\ WaitFrame
    /\ UNCHANGED wholeVars

\* One round of the up stage, up to the SSH probe: an open port leads to the
\* API probe after a delay, anything else sleeps and goes round.
WaitUpSsh ==
    /\ unit = "wait"
    /\ u_pc = "up_ssh"
    /\ now - wait_start < MAX_WAIT
    /\ probed' = probed \cup {WAIT_SSH_PORT}
    /\ \E probe \in Probes :
        IF probe = "open"
        THEN /\ up_seen' = "ssh"
             /\ now' = now + API_DELAY
             /\ u_pc' = "up_api"
        ELSE /\ now' = now + ProbeTime(probe) + PROBE_SLEEP
             /\ UNCHANGED <<u_pc, up_seen>>
    /\ UNCHANGED <<u_ret, w_i, wait_start, host_went_down>>
    /\ WaitFrame
    /\ UNCHANGED wholeVars

\* The API probe of the same round: an open port returns True after a last
\* delay, anything else sleeps and goes back to the test of the loop.
WaitUpApi ==
    /\ unit = "wait"
    /\ u_pc = "up_api"
    /\ probed' = probed \cup {WAIT_API_PORT}
    /\ \E probe \in Probes :
        IF probe = "open"
        THEN /\ up_seen' = "ssh_api"
             /\ now' = now + SERVICES_DELAY
             /\ Return("true")
        ELSE /\ now' = now + ProbeTime(probe) + PROBE_SLEEP
             /\ u_pc' = "up_ssh"
             /\ UNCHANGED <<u_ret, up_seen>>
    /\ UNCHANGED <<w_i, wait_start, host_went_down>>
    /\ WaitFrame
    /\ UNCHANGED wholeVars

\* process_host, step 13: a False from the wait ends the host's run.
WaitCaller ==
    /\ unit = "wait"
    /\ u_pc = "returned"
    /\ timeout = REBOOT_TIMEOUT
    /\ u_pc' = IF u_ret = "true" THEN "process_host_continues" ELSE "process_host_returns_false"
    /\ UNCHANGED <<u_ret, w_i, now, wait_start, host_went_down, up_seen, probed>>
    /\ WaitFrame
    /\ UNCHANGED wholeVars

WaitStep ==
    \/ WaitDownProbe
    \/ WaitTimeout
    \/ WaitUpSsh
    \/ WaitUpApi
    \/ WaitCaller

\* ------------------------------------------- ssh_execute_with_output alone
\* `now` is the time spent in select() calls since exec_command; the method
\* itself keeps no clock.
ExecFrame == UNCHANGED <<unit, u_sent, u_failed, patch_name, local_size, remote_size,
                         inMaintenanceMode, m_calls, timeout, w_i, wait_start,
                         host_went_down, up_seen, host_ports, probed>>

\* client.exec_command(command, timeout=timeout): the channel opens, or the
\* call raises and the except clause returns (False, "", error).
ExecCommand ==
    /\ unit = "exec"
    /\ u_pc = "start"
    /\ \E opened \in BOOLEAN :
        IF opened THEN u_pc' = "loop" /\ u_ret' = u_ret ELSE Return("false")
    /\ UNCHANGED <<now, stdout_output>>
    /\ ExecFrame
    /\ UNCHANGED wholeVars

\* One round of `while not stdout.channel.exit_status_ready()`: select() on
\* the channel for at most one second, recv() of what is there.  The loop
\* condition is the only test of the round.
ExecPoll ==
    /\ unit = "exec"
    /\ u_pc = "loop"
    /\ now < MaxElapsed
    /\ \E readable \in BOOLEAN :
        IF readable
        THEN /\ stdout_output' = IF stdout_output < MaxChunks THEN stdout_output + 1
                                                             ELSE stdout_output
             /\ now' = now
        ELSE /\ stdout_output' = stdout_output
             /\ now' = now + SELECT_TIMEOUT
    /\ UNCHANGED <<u_pc, u_ret>>
    /\ ExecFrame
    /\ UNCHANGED wholeVars

\* exit_status_ready() is true: the rest of the output is read and the exit
\* code decides the result; an exception on the way returns False.
ExecExit ==
    /\ unit = "exec"
    /\ u_pc = "loop"
    /\ \E outcome \in {"zero", "nonzero", "raises"} :
        Return(IF outcome = "zero" THEN "true" ELSE "false")
    /\ UNCHANGED <<now, stdout_output>>
    /\ ExecFrame
    /\ UNCHANGED wholeVars

ExecStep ==
    \/ ExecCommand
    \/ ExecPoll
    \/ ExecExit

\* ------------------------------------------------------------ the methods
UnitsOf == {"install", "copy", "maintenance", "wait", "exec"}

InitUnits ==
    /\ RunIdle
    /\ unit \in UnitsOf
    /\ patch \in (IF unit = "copy" THEN PatchKinds \ {"unsupported"} ELSE {"present"})
    /\ u_pc = "start"
    /\ u_ret = "none"
    /\ u_sent = <<>>
    /\ u_failed = "none"
    /\ patch_name \in (IF unit = "install" THEN Names ELSE {<<>>})
    /\ local_size \in (IF unit = "copy" /\ patch = "present" THEN Sizes ELSE {0})
    /\ remote_size = NoSize
    /\ inMaintenanceMode \in (IF unit = "maintenance" THEN BOOLEAN ELSE {FALSE})
    /\ m_calls = <<>>
    /\ timeout \in (CASE unit = "wait" -> {REBOOT_TIMEOUT, DEFAULT_REBOOT_TIMEOUT}
                        [] unit = "exec" -> {SSH_TIMEOUT, OUTPUT_TIMEOUT}
                        [] OTHER -> {0})
    /\ w_i = 0
    /\ now = 0
    /\ wait_start = NoTime
    /\ host_went_down = FALSE
    /\ up_seen = "none"
    /\ host_ports \in (IF unit = "wait" THEN HostPorts ELSE {DefaultPorts})
    /\ probed = {}
    /\ stdout_output = 0

UnitStep == InstallStep \/ CopyStep \/ MaintStep \/ WaitStep \/ ExecStep
SpecUnits == InitUnits /\ [][UnitStep]_vars

\* ================================================================ claims
TeardownOps == {"close_ssh", "disconnect_api"}
Has(op) == \E k \in 1..Len(trace) : trace[k].op = op

\* Index of the last operation of the trace that is not a session close (0
\* when there is none).
RECURSIVE LastPhaseUpTo(_)
LastPhaseUpTo(k) ==
    IF k = 0 THEN 0
    ELSE IF trace[k].op \notin TeardownOps THEN k ELSE LastPhaseUpTo(k - 1)
LastPhaseIndex == LastPhaseUpTo(Len(trace))

\* The operation each fatal step issues.
StepOp ==
    [s \in FatalSteps |->
        CASE s = "api_connect" -> "connect_api"
          [] s = "reconnect_api" -> "connect_api"
          [] s = "get_host_after" -> "get_host"
          [] OTHER -> s]

\* C1: once a fatal step has failed, no later phase action is performed on
\* the host: the run is in its teardown or has returned, the failed step is
\* the last step that ran, and the last operation issued to the host that is
\* not a session close is the one of the failed step.
C1_FatalStopsRun ==
    firstFail \in FatalSteps =>
        /\ pc \in {"finally", "returned"}
        /\ last = [step |-> firstFail, ok |-> FALSE]
        /\ LET k == LastPhaseIndex
           IN  k > 0 /\ trace[k].op = StepOp[firstFail]

\* A run that failed at the install, after maintenance mode was entered,
\* has returned.
C1_Witness ==
    /\ pc = "returned"
    /\ firstFail = "install_patch"
    /\ Has("enter_mm")
    /\ ~Has("reboot")

ExpectedReason ==
    [s \in FatalSteps \cup {"exception"} |->
        CASE s = "api_connect" -> ReasonApiConnect
          [] s = "get_host" -> ReasonGetHost
          [] s = "ssh_connect" -> ReasonSshConnect
          [] s = "find_datastore" -> ReasonDatastore
          [] s = "copy_patch" -> ReasonCopy
          [] s = "enter_mm" -> ReasonMaintenance
          [] s = "install_patch" -> ReasonInstall
          [] s = "reboot" -> ReasonReboot
          [] s = "wait_reboot" -> ReasonWaitReboot
          [] s = "reconnect_api" -> ReasonReconnect
          [] s = "get_host_after" -> ReasonGetHostAfter
          [] OTHER -> ReasonException]

\* No two reasons are the same, and none is the success message.
ReasonsDistinct ==
    \A s, t \in DOMAIN ExpectedReason :
        /\ ExpectedReason[s] # ReasonSuccess
        /\ s # t => ExpectedReason[s] # ExpectedReason[t]

\* C6: a call of process_host ends in one result, set by the one return
\* statement it reaches; the result is success exactly when no fatal step
\* failed and nothing raised; a failure carries the reason of the first
\* fatal step that failed (or the generic reason of an exception), and no
\* two of these reasons are the same.
C6_OneResult ==
    /\ (ret # NoRet) <=> (pc \in {"finally", "returned"})
    /\ pc = "returned" =>
        /\ ret.ok <=> (firstFail = "none")
        /\ ret.ok => ret.msg = ReasonSuccess
        /\ ~ret.ok => firstFail # "none" /\ ret.msg = ExpectedReason[firstFail]
    /\ ReasonsDistinct

\* A run failed at the second resolve of the host object, after every
\* non-fatal step before it had failed.
C6_Witness ==
    /\ pc = "returned"
    /\ firstFail = "get_host_after"
    /\ nfAllFailed
    /\ ~ret.ok

\* C3: run() calls process_host once for every configured host, in
\* configuration order, whatever the earlier hosts' runs returned (a fatal
\* failure or the generic exception result); every call returns a result.
C3_EveryHostOnce ==
    /\ \A k \in 1..Len(calls) : calls[k] = k
    /\ Len(calls) <= Len(hosts)
    /\ Len(rets) <= Len(calls)
    /\ Len(calls) <= Len(rets) + 1
    /\ \A k \in 1..Len(rets) : rets[k] # NoRet
    /\ runPc \in {"report", "done"} =>
        /\ Len(calls) = Len(hosts)
        /\ Len(rets) = Len(hosts)

\* run() is over for three hosts: the second run ended in the exception
\* handler, the first and the third succeeded.
C3_Witness ==
    /\ runPc = "done"
    /\ Len(hosts) = 3
    /\ Len(rets) = 3
    /\ rets[1].ok
    /\ rets[2] = [ok |-> FALSE, msg |-> ReasonException]
    /\ rets[3].ok

\* C4: run() returns True only if every call of process_host returned
\* success, for every host list (hosts may share a name).
C4_SuccessOnlyIfAll ==
    (runPc = "done" /\ runResult) => \A k \in 1..Len(rets) : rets[k].ok

\* C5: after the loop the report has one entry per configured host, and the
\* entry of each host is what that host's own process_host call returned.
C5_ReportMatchesRuns ==
    runPc \in {"report", "done"} =>
        /\ Cardinality({n \in HostNames : results[n] # NoResult}) = Len(hosts)
        /\ \A k \in 1..Len(hosts) : results[hosts[k]] = rets[k]

\* C7: a failure of a non-fatal step (enabling services, the SSH wait, the
\* verification, the cleanup, disabling services) leaves the run without a
\* result and at the step that follows in the sequence (after the last step:
\* with the success result); a run only fails when a fatal step failed or
\* something raised.
C7_NonFatalContinues ==
    /\ ~last.ok =>
        /\ last.step = "enable_services" => pc = "wait_ssh" /\ ret = NoRet
        /\ last.step = "wait_ssh" => pc = "ssh_connect" /\ ret = NoRet
        /\ last.step = "verify_patch" => pc = "cleanup" /\ ret = NoRet
        /\ last.step = "cleanup_patch" => pc = "reboot" /\ ret = NoRet
        /\ last.step = "disable_services" =>
              pc \in {"finally", "returned"} /\ ret = [ok |-> TRUE, msg |-> ReasonSuccess]
    /\ (pc = "returned" /\ ~ret.ok) => firstFail # "none"

\* A run on a clustered host with a patch ended in success although every
\* non-fatal step it took failed: enabling services, the SSH wait, the
\* workload shutdown, the verification, the cleanup, the SSH reconnect,
\* leaving maintenance mode and disabling services.
C7_Witness ==
    /\ pc = "returned"
    /\ ret.ok
    /\ is_clustered
    /\ patch = "present"
    /\ nfAllFailed

VmCommandOps == {"power_shutdown", "power_off"}

\* C8: on a clustered host every shutdown or power-off command comes after
\* an enter-maintenance-mode request that returned success; on a standalone
\* host enter-maintenance-mode is requested only after the workload listing,
\* when check_and_shutdown_vms has returned, and no shutdown or power-off
\* command follows it.
C8_TopologyOrder ==
    /\ is_clustered =>
        \A k \in 1..Len(trace) :
            trace[k].op \in VmCommandOps =>
                /\ \E j \in 1..(k - 1) : trace[j].op = "enter_mm"
                /\ firstFail # "enter_mm"
    /\ ~is_clustered =>
        \A k \in 1..Len(trace) :
            trace[k].op = "enter_mm" =>
                /\ \E j \in 1..(k - 1) : trace[j].op = "list_vms"
                /\ vm_result # "unset"
                /\ \A j \in (k + 1)..Len(trace) : trace[j].op \notin VmCommandOps

\* A clustered host's run succeeded after a forced power-off was sent.
C8_Witness ==
    /\ pc = "returned"
    /\ ret.ok
    /\ is_clustered
    /\ Has("power_off")

\* C9: when check_and_shutdown_vms returned False the run goes on: straight
\* after it the run has no result and is at enter-maintenance-mode
\* (standalone) or at the install (clustered), and a run in which no fatal
\* step failed and nothing raised ends in success after maintenance mode,
\* the install of a configured patch and the reboot.
C9_ShutdownAdvisory ==
    vm_result = "false" =>
        /\ last.step = "shutdown_vms" =>
            /\ ~last.ok
            /\ ret = NoRet
            /\ pc = (IF is_clustered THEN "install" ELSE "enter_mm")
        /\ (pc = "returned" /\ firstFail = "none") =>
            /\ ret.ok
            /\ Has("enter_mm")
            /\ Has("reboot")
            /\ patch = "present" => Has("install_patch")

\* A standalone host's run with a patch succeeded although the workload
\* shutdown returned False.
C9_Witness ==
    /\ pc = "returned"
    /\ ret.ok
    /\ ~is_clustered
    /\ patch = "present"
    /\ vm_result = "false"

\* ------------------------------------------------- C10: graceful window
VmPcs == {"vm_list", "vm_state", "vm_poll", "vm_final"}
GracefulSent(w) == \E k \in 1..Len(trace) : trace[k] = Ev("power_shutdown", w)
Handled(w) == pc \in VmPcs /\ vm > w
Forced(w) == Cardinality({k \in 1..Len(trace) : trace[k] = Ev("power_off", w)})

C12_StoppedOnlyIfConfirmed ==
    \A w \in 1..MaxVMs :
        (Handled(w) /\ w \notin failed_vms) => vmLast[w] = "query_off"

\* ------------------------------------------------ C17, C18, C19: main
\* C17: with a configuration that has no host section the process does
\* nothing but exit with the error code: no connection test, no call of
\* process_host, no session and no operation on any host.
C17_NoHostsRejected ==
    config = "no_hosts" =>
        /\ runPc \in {"main", "exited"}
        /\ runPc = "exited" => exit_code = EXIT_ERROR
        /\ tested = 0
        /\ calls = <<>>
        /\ pc = "idle"
        /\ sessions = <<>>
        /\ trace = <<>>

\* The process has exited on a configuration without hosts.
C17_Witness ==
    /\ config = "no_hosts"
    /\ runPc = "exited"
    /\ exit_code = EXIT_ERROR

C19_ExitCodes ==
    runPc = "exited" =>
        /\ exit_code \in {EXIT_OK, EXIT_ERROR, EXIT_INTERRUPTED}
        /\ exit_code = EXIT_OK <=>
              /\ config = "ok"
              /\ pc # "interrupted"
              /\ \A k \in 1..Len(rets) : rets[k].ok
        /\ config # "ok" => exit_code = EXIT_ERROR
        /\ (pc # "interrupted" /\ \E k \in 1..Len(rets) : ~rets[k].ok) =>
              exit_code = EXIT_ERROR
        /\ pc = "interrupted" => exit_code = EXIT_INTERRUPTED

\* ------------------------------------------- C15: routing by the extension
\* C15: once install_patch_via_ssh has passed its routing, a name ending in
\* ".zip" has had exactly the depot install command sent, one ending in ".vib"
\* exactly the single-VIB install command, one ending in ".iso" exactly the
\* profile update command, and for every other name (the empty one included)
\* nothing was sent and the method returned False.
HasExtension(a, b, c) ==
    /\ Len(patch_name) >= 4
    /\ patch_name[Len(patch_name) - 3] = "."
    /\ patch_name[Len(patch_name) - 2] = a
    /\ patch_name[Len(patch_name) - 1] = b
    /\ patch_name[Len(patch_name)] = c
C15_ExtensionRouting ==
    (unit = "install" /\ u_pc # "start") =>
        /\ HasExtension("z", "i", "p") => u_sent = <<"vib_install_depot">>
        /\ HasExtension("v", "i", "b") => u_sent = <<"vib_install_vib">>
        /\ HasExtension("i", "s", "o") => u_sent = <<"profile_update_depot">>
        /\ (~HasExtension("z", "i", "p") /\ ~HasExtension("v", "i", "b")
              /\ ~HasExtension("i", "s", "o"))
             => (u_sent = <<>> /\ u_ret = "false" /\ u_pc = "returned")
C15_Witness ==
    /\ unit = "install"
    /\ patch_name = <<".", "Z", "i", "p">>
    /\ u_pc = "returned"
    /\ u_ret = "false"
    /\ u_sent = <<>>

\* --------------------------------------------------- C16: upload integrity
\* C16: once copy_patch_via_scp has returned, it returned True exactly when
\* the patch file is present, every call of the transfer (open, datastore
\* stat, put, remote stat, close) came back without raising and the remote
\* size equals the local size; and process_host goes on after the copy only
\* when it returned True, and returns False otherwise.
CopyReturned == unit = "copy" /\ u_pc \in {"returned", "process_host_continues",
                                           "process_host_returns_false"}
C16_CopySuccessIffSameSize ==
    CopyReturned =>
        /\ u_ret = "true" <=>
              /\ patch = "present"
              /\ u_failed = "none"
              /\ u_sent = <<"open_sftp", "stat_datastore", "put", "stat_remote", "close">>
              /\ remote_size - local_size = 0
        /\ u_pc = "process_host_continues" => u_ret = "true"
        /\ u_pc = "process_host_returns_false" => u_ret = "false"
        /\ u_ret \in {"true", "false"}
C16_Witness ==
    /\ unit = "copy"
    /\ u_pc = "process_host_returns_false"
    /\ u_failed = "none"
    /\ local_size = 2
    /\ remote_size = 1
    /\ u_sent = <<"open_sftp", "stat_datastore", "put", "stat_remote", "close">>

\* ------------------------------------------- C13: maintenance idempotence
\* C13: (a) a call of enter_maintenance_mode on a host read as being in
\* maintenance mode, and a call of exit_maintenance_mode on a host read as not
\* being in it, submits no task, returns True and leaves the state alone;
\* (b) when the same method is called twice in a row, the second call leaves
\* the host in the state the first one left it in, and returns what the first
\* returned: after a True it is the no-op of (a), after a False it fails
\* again when the host treats it as it treated the first.
TargetState(op) == op = "enter"
Readable(c) == c.reply # "unreachable"
C13_MaintenanceIdempotent ==
    /\ \A k \in 1..Len(m_calls) :
          (Readable(m_calls[k]) /\ m_calls[k].before = TargetState(m_calls[k].op)) =>
              /\ m_calls[k].tasks = 0
              /\ m_calls[k].result
              /\ m_calls[k].after = m_calls[k].before
    /\ \A k \in 1..(Len(m_calls) - 1) :
          (m_calls[k + 1].op = m_calls[k].op) =>
              /\ (m_calls[k].result /\ Readable(m_calls[k + 1])) =>
                    /\ m_calls[k + 1].tasks = 0
                    /\ m_calls[k + 1].result
                    /\ m_calls[k + 1].after = m_calls[k].after
              /\ (m_calls[k + 1].reply = m_calls[k].reply) =>
                    /\ m_calls[k + 1].result = m_calls[k].result
                    /\ m_calls[k + 1].after = m_calls[k].after
C13_Witness ==
    /\ unit = "maintenance"
    /\ Len(m_calls) >= 2
    /\ m_calls[1].op = "enter" /\ m_calls[2].op = "enter"
    /\ ~m_calls[1].before
    /\ m_calls[1].tasks = 1 /\ m_calls[1].result
    /\ m_calls[2].reply = "error"
    /\ m_calls[2].tasks = 0 /\ m_calls[2].result
    /\ inMaintenanceMode

\* ------------------------------------------------ C14, C20: reboot wait
WaitReturned == unit = "wait" /\ u_pc \in {"returned", "process_host_continues",
                                           "process_host_returns_false"}

\* C14: wait_for_host_reboot returns True only after the up stage saw the SSH
\* port open and then the API port open; and it returns False only from the
\* up stage, once max_wait has run out since wait_start: the down stage never
\* ends the wait, whether or not the host was seen down.
C14_SuccessNeedsBothPorts ==
    WaitReturned =>
        /\ wait_start # NoTime
        /\ u_ret = "true" => up_seen = "ssh_api"
        /\ u_ret = "false" => now - wait_start >= MAX_WAIT
        /\ ~host_went_down => (w_i = DOWN_ATTEMPTS /\ wait_start = DOWN_ATTEMPTS * PROBE_SLEEP)
C14_Witness ==
    /\ WaitReturned
    /\ ~host_went_down
    /\ w_i = DOWN_ATTEMPTS
    /\ u_ret = "true"
    /\ up_seen = "ssh_api"

\* C20: wait_for_host_reboot returns no later than the timeout it was given,
\* counted from its start.
C20_ReturnsWithinTimeout ==
    WaitReturned => now <= timeout

\* ------------------------------------------------- C21: reconnect attempts
\* The connection attempts and backoff sleeps that follow the reboot wait.
WaitIndex == IF Has("wait_reboot") THEN CHOOSE k \in 1..Len(trace) : trace[k].op = "wait_reboot"
             ELSE Len(trace)
IsReconnectEvent(e) == e.op \in {"connect_api", "sleep_backoff"}
ReconnectEvents == SelectSeq(SubSeq(trace, WaitIndex + 1, Len(trace)), IsReconnectEvent)
ConnectsOf(events) == (Len(events) + 1) \div 2
Connects == ConnectsOf(ReconnectEvents)

\* C21: after the reboot wait the run makes connection attempts and backoff
\* sleeps in strict alternation, starting with an attempt; at most MAX_RETRIES
\* attempts are made; inside the loop the last event is a sleep, outside it an
\* attempt (no sleep follows a success or the last attempt); no attempt
\* follows a success; and the run fails as reconnect-exhausted exactly when
\* MAX_RETRIES attempts were made and all of them failed.
C21_BoundedReconnect ==
    LET events == ReconnectEvents
        n == ConnectsOf(events)
    IN  /\ \A k \in 1..Len(events) :
              events[k].op = (IF k % 2 = 1 THEN "connect_api" ELSE "sleep_backoff")
        /\ n <= MAX_RETRIES
        /\ (pc = "reconnect") => Len(events) % 2 = 0
        /\ (pc # "reconnect" /\ Len(events) > 0) => Len(events) % 2 = 1
        /\ (pc \notin {"idle", "interrupted"}) =>
              /\ attempt <= n /\ n <= attempt + 1
              /\ (n = attempt + 1) => (pc # "reconnect" /\ firstFail # "reconnect_api")
              /\ (firstFail = "reconnect_api") <=>
                    (pc # "reconnect" /\ n = MAX_RETRIES /\ attempt = MAX_RETRIES)
              /\ (ret.msg = ReasonReconnect) <=> (firstFail = "reconnect_api")
C21_Witness ==
    /\ pc = "returned"
    /\ ret = [ok |-> FALSE, msg |-> ReasonReconnect]
    /\ Connects = MAX_RETRIES
    /\ Len(ReconnectEvents) = 2 * MAX_RETRIES - 1

\* ------------------------------- C22, C23: failures of maintenance mode
MaintFailures == {"error", "timeout", "unreachable"}
TaskFailures == {"error", "timeout"}
ExitIndex == CHOOSE k \in 1..Len(trace) : trace[k].op = "exit_mm"

\* C22: when exit_maintenance_mode returned False (its task ended in error,
\* the wait for it timed out, or the call raised), process_host goes on: it is
\* at the workload restart or the service-disable step with nothing returned,
\* or it has passed them and returns success; the service-disable step was
\* then called, and so was the restart on a standalone host with an SSH
\* session.
C22_ExitFailureNonFatal ==
    (ended.exit \in MaintFailures) =>
        /\ pc \in {"start_vms", "disable_services", "finally", "returned"}
        /\ firstFail = "none"
        /\ pc \in {"start_vms", "disable_services"} => ret = NoRet
        /\ pc \in {"finally", "returned"} =>
              /\ ret = [ok |-> TRUE, msg |-> ReasonSuccess]
              /\ \E j \in (ExitIndex + 1)..Len(trace) : trace[j].op = "disable_services"
        /\ (pc # "start_vms" /\ ~is_clustered /\ ssh_client # 0) =>
              \E j \in (ExitIndex + 1)..Len(trace) : trace[j].op = "list_vms"
C22_Witness ==
    /\ ended.exit = "timeout"
    /\ pc = "returned"
    /\ ret.ok
    /\ ~is_clustered
    /\ ssh_client # 0

\* C23 as stated: a maintenance-mode task that ends in error or outlasts its
\* wait makes the run fail and stop, when entering and when exiting.
C23_TaskFailureFatal ==
    (ended.enter \in TaskFailures \/ ended.exit \in TaskFailures) =>
        /\ pc \in {"finally", "returned"}
        /\ ~ret.ok
        /\ trace[LastPhaseIndex].op \in {"enter_mm", "exit_mm"}

\* C23: a maintenance-mode task that ends in error or outlasts its wait is
\* fatal when entering (the run returns the maintenance reason and no later
\* phase is started) and is not fatal when exiting (no failure is recorded
\* for it and the run returns success).
C23_EnterFatalExitNot ==
    /\ (ended.enter \in TaskFailures) =>
          /\ pc \in {"finally", "returned"}
          /\ ret = [ok |-> FALSE, msg |-> ReasonMaintenance]
          /\ firstFail = "enter_mm"
          /\ trace[LastPhaseIndex].op = "enter_mm"
          /\ ended.exit = "none"
    /\ (ended.exit \in TaskFailures) =>
          /\ ended.enter = "ok"
          /\ firstFail = "none"
          /\ ret \in {NoRet, [ok |-> TRUE, msg |-> ReasonSuccess]}
C23_Witness ==
    /\ ended.enter = "error"
    /\ pc = "returned"
    /\ ret = [ok |-> FALSE, msg |-> ReasonMaintenance]

\* ------------------------------------------- C24: SSH after the reboot
\* The run has passed the reopening of the SSH session.
PastSshReconnect ==
    \/ pc \in {"exit_mm", "start_vms", "disable_services"}
    \/ pc \in {"finally", "returned"} /\ Has("exit_mm")
Restarted == \E j \in (ExitIndex + 1)..Len(trace) : trace[j].op = "list_vms"

\* C24: once the reopening of the SSH session has been tried, whether or not
\* it gave a session: no failure is recorded, exit_maintenance_mode is called
\* next, the restart of the workloads is executed exactly when the host is
\* standalone and a session was reopened, the service-disable step is called,
\* and the run returns success.
C24_SshReopenNonFatal ==
    PastSshReconnect =>
        /\ firstFail = "none"
        /\ pc # "exit_mm" => Has("exit_mm")
        /\ pc \in {"disable_services", "finally", "returned"} =>
              (Restarted <=> (~is_clustered /\ ssh_client # 0))
        /\ pc \in {"finally", "returned"} =>
              /\ ret = [ok |-> TRUE, msg |-> ReasonSuccess]
              /\ \E j \in (ExitIndex + 1)..Len(trace) : trace[j].op = "disable_services"
C24_Witness ==
    /\ pc = "returned"
    /\ Has("exit_mm")
    /\ ssh_client = 0
    /\ ~is_clustered
    /\ ~Restarted
    /\ ret.ok

\* ------------------------------------------------- C25: no patch configured
PatchOps == {"copy_patch", "install_patch", "verify_patch", "cleanup_patch"}
Count(op) == Cardinality({k \in 1..Len(trace) : trace[k].op = op})
PastVerify == pc \in {"cleanup", "reboot", "close_sessions", "wait_reboot", "reconnect",
                      "get_host_after", "ssh_reconnect", "exit_mm", "start_vms",
                      "disable_services"}

\* C25 as stated: with no patch configured, no upload, install, verification
\* or cleanup is sent to the host.
C25_NoPatchNoCommands ==
    (patch = "none") => \A k \in 1..Len(trace) : trace[k].op \notin PatchOps

\* C25: with no patch configured, no upload, no install and no cleanup is sent
\* to the host, the verification step is still executed once, after the
\* maintenance mode was entered and before the reboot, and a run that returns
\* success went through the workload listing, the maintenance mode, the
\* reboot, the exit from maintenance mode and the service-disable step.
C25_NoPatchOnlyVerifies ==
    (patch = "none") =>
        /\ \A k \in 1..Len(trace) : trace[k].op \notin (PatchOps \ {"verify_patch"})
        /\ Count("verify_patch") <= 1
        /\ PastVerify => Count("verify_patch") = 1
        /\ Has("verify_patch") => (Has("enter_mm") /\ firstFail # "enter_mm")
        /\ Has("reboot") => Has("verify_patch")
        /\ (pc = "returned" /\ ret.ok) =>
              /\ Has("list_vms") /\ Has("enter_mm") /\ Has("verify_patch")
              /\ Has("reboot") /\ Has("exit_mm") /\ Has("disable_services")
C25_Witness ==
    /\ patch = "none"
    /\ pc = "returned"
    /\ ret.ok
    /\ Count("verify_patch") = 1

\* ------------------------------------------- C26: removal of the artifact
IndexOf(op) == CHOOSE k \in 1..Len(trace) : trace[k].op = op
LaterFatalSteps == {"reboot", "wait_reboot", "reconnect_api", "get_host_after", "exception"}

StopOps == {"power_shutdown", "power_off"}

\* C28: a power-on command is sent only to a workload to which the shutdown
\* phase of the same run had sent a shutdown or power-off command.
C28_PowerOnOnlyStopped ==
    \A k \in 1..Len(trace) :
        trace[k].op = "power_on" =>
            \E j \in 1..(k - 1) : trace[j].vm = trace[k].vm /\ trace[j].op \in StopOps

\* ------------------------------------------------ C29: the ports probed
\* C29: every port wait_for_host_reboot probes is the SSH port or the API
\* port of the host's descriptor.
C29_ProbesDescriptorPorts ==
    (unit = "wait") => probed \subseteq {host_ports.ssh, host_ports.api}

\* ------------------------------------------ C30: the poll loops are bounded
\* C30: the output loop of ssh_execute_with_output is left once the timeout
\* the method was called with has passed: while the loop is running, no more
\* than `timeout` seconds have been spent waiting for the command.
C30_OutputLoopBounded ==
    (unit = "exec" /\ u_pc = "loop") => now <= timeout

\* ------------------------------------- C31: leaving maintenance mode again
\* C31: a run of process_host that has ended and in which
\* enter_maintenance_mode returned success has requested
\* exit_maintenance_mode.
C31_ExitAttempted ==
    (pc = "returned" /\ ended.enter = "ok") => Has("exit_mm")

\* ------------------------------------ C34: the reboot and maintenance mode
PastEnterPcs == {"install", "verify", "cleanup", "reboot", "close_sessions", "wait_reboot",
                 "reconnect", "get_host_after", "ssh_reconnect", "exit_mm", "start_vms",
                 "disable_services"}

\* C34: as long as enter_maintenance_mode has not returned success in a run,
\* the run is not at the reboot step or at any step after the maintenance
\* step, and no reboot command has been issued in it.
C34_RebootNeedsMaintenance ==
    (ended.enter # "ok") =>
        /\ pc \notin PastEnterPcs
        /\ ~Has("reboot")
C34_Witness ==
    /\ ended.enter = "ok"
    /\ Has("reboot")
    /\ is_clustered
    /\ pc = "returned"
    /\ ret.ok

\* ---------------------------------- C35: success and the configured patch
\* C35: when a patch file is configured, a run that returned success has
\* issued the install command.
C35_SuccessMeansInstalled ==
    (patch # "none" /\ pc = "returned" /\ ret.ok) => Has("install_patch")

\* ------------------------------------ C32: the remote-access services
\* The run's enable_services_via_api call returned True: the limited
\* environment has given one reply that is not the nominal one, and that
\* reply is the one that failed the run's fatal step, so the call that
\* enabled the services got its nominal reply.
EnabledServices ==
    /\ Has("enable_services")
    /\ limited
    /\ faults = 1
    /\ firstFail \in FatalSteps

\* C32: a run of process_host that has ended and in which
\* enable_services_via_api returned True has called
\* disable_services_via_api.
C32_DisableAttempted ==
    (pc = "returned" /\ EnabledServices) => Has("disable_services")

\* ------------------------------------- C33: an artifact nothing installs
\* C33: a run that ended with the install failure of an artifact whose
\* extension install_patch_via_ssh has no command for has sent no shutdown
\* or power-off command and has not requested maintenance mode.
C33_FailsBeforeDisruption ==
    (patch = "unsupported" /\ pc = "returned" /\ firstFail = "install_patch") =>
        /\ ~Has("enter_mm")
        /\ \A k \in 1..Len(trace) : trace[k].op \notin VmCommandOps

\* ------------------------------------ C36: the result of a failed listing
\* C36: check_and_shutdown_vms returns True only when its listing command
\* succeeded.
C36_TrueOnlyIfListed ==
    (vm_result = "true") => ended.listing = "ok"
====
